---------------------------- MODULE Spec2Model ----------------------------
(***************************************************************************)
(* Water-sort puzzle: the container pouring algebra (src/src/model.rs),    *)
(* the puzzle state with its moves, the solvability oracle and the         *)
(* shuffler (src/src/solver.rs).                                           *)
(*                                                                         *)
(* A FluidPacket is modelled as an integer: Empty is -1 and                *)
(* Fluid { color_id } is color_id, so that the derived order (Empty before *)
(* any Fluid, Fluid by color_id) is the order of the integers.  A          *)
(* FluidContainer is the record [packets, capacity] of the struct; a       *)
(* GameState is the sequence fluid_containers.  Rust indices are 0-based,  *)
(* sequence positions here are 1-based; a move's from/to are kept 1-based. *)
(***************************************************************************)
EXTENDS Integers, Sequences, FiniteSets, TLC

VARIABLES
    containers,     \* GameState.fluid_containers
    last,           \* the last operation applied: its name, arguments, return
                    \* value and the containers it started from
    pc,             \* position of the running procedure (shuffle, is_solvable)
    shuffleStart,   \* the state shuffle() was called on
    history,        \* the reverse moves shuffle() has applied so far
    iter,           \* shuffle(): iterations of the for loop done so far
    ways,           \* is_solvable(): ways_to_get_liquids
    pool,           \* is_solvable(): container_size_to_count_map
    liquids,        \* is_solvable(): liquid_size_vec
    stage,          \* is_solvable(): the stage that gave the verdict
    result,         \* the verdict of is_solvable(), "none" before it returns
    rhs,            \* a second puzzle state, the right operand of ==
    tasks,          \* recursive_is_solvable(): the calls and closures of the
                    \* parallel search, by their path of way indices
    found,          \* recursive_is_solvable(): the shared AtomicBool
    starting_state, \* GameEngine: the state Reset goes back to
    selected,       \* GameEngine: the Selection
    undo_enable,    \* GameEngine: whether snapshots are kept
    undo_stack,     \* GameEngine: snapshots of the states left behind
    redo_stack,     \* GameEngine: snapshots of the states undone
    editor_mode,    \* GameEngine: whether the editing actions are handled
    clipboard,      \* the text of the system clipboard
    handled         \* the number of actions handle_game_action was given

\* the fields of GameEngine beside state, which is containers
engineVars == <<starting_state, selected, undo_enable, undo_stack, redo_stack,
                editor_mode, clipboard, handled>>

vars == <<containers, last, pc, shuffleStart, history, iter, ways, pool, liquids,
          stage, result, rhs, tasks, found, starting_state, selected, undo_enable,
          undo_stack, redo_stack, editor_mode, clipboard, handled>>

\* ----------------------------------------------------------------- bounds
MaxCap == 3             \* largest container capacity drawn
NColors == 2            \* color ids 0 .. NColors-1
NGame == 3              \* containers of a puzzle state in the game specifications
MaxOracleContainers == 4   \* containers of a puzzle state given to the oracle
NOracleColors == 3      \* colors of a puzzle state given to the oracle

\* ------------------------------------------------------------ small helpers
Min(a, b) == IF a <= b THEN a ELSE b

Range(s) == {s[i] : i \in 1..Len(s)}

RECURSIVE SumSeq(_)
SumSeq(s) == IF s = <<>> THEN 0 ELSE Head(s) + SumSeq(Tail(s))

RECURSIVE SeqsUpTo(_, _)
\* all sequences over S of length at most n
SeqsUpTo(S, n) ==
    IF n = 0 THEN {<<>>}
    ELSE LET shorter == SeqsUpTo(S, n - 1)
         IN  shorter \cup {Append(s, x) : s \in {t \in shorter : Len(t) = n - 1}, x \in S}

\* ------------------------------------------------------------- FluidPacket
Empty == -1
Fluid(color_id) == color_id
ColorIds == 0..(NColors - 1)
Packets == {Empty} \cup ColorIds

FluidPacket_is_empty(p) == p = Empty

\* The letters of the one-character encoding, in order of color id.
Letters == <<"A", "B", "C", "D", "E", "F", "G", "H", "I", "J", "K", "L", "M",
             "N", "O", "P", "Q", "R", "S", "T", "U", "V", "W", "X", "Y", "Z">>

\* the lower-case letters, which to_ascii_uppercase turns into those above
LowerLetters == <<"a", "b", "c", "d", "e", "f", "g", "h", "i", "j", "k", "l", "m",
                  "n", "o", "p", "q", "r", "s", "t", "u", "v", "w", "x", "y", "z">>

\* letter_to_color_id: Some(id) for a letter of either case, None (here -1)
\* otherwise
letter_to_color_id(ch) ==
    IF \E i \in 1..Len(Letters) : Letters[i] = ch \/ LowerLetters[i] = ch
    THEN (CHOOSE i \in 1..Len(Letters) : Letters[i] = ch \/ LowerLetters[i] = ch) - 1
    ELSE -1

\* FluidPacket::new_from_repr on a one-character token
FluidPacket_new_from_repr(ch) ==
    IF ch = "." THEN Empty
    ELSE IF letter_to_color_id(ch) >= 0 THEN Fluid(letter_to_color_id(ch))
    ELSE Empty

RECURSIVE LettersAcc(_, _)
\* the loop of letters_to_color_id: acc * 26 + digit + 1 letter by letter,
\* -1 (None) as soon as a character is no letter
LettersAcc(s, acc) ==
    IF s = <<>> THEN acc
    ELSE IF letter_to_color_id(Head(s)) < 0 THEN -1
    ELSE LettersAcc(Tail(s), acc * 26 + letter_to_color_id(Head(s)) + 1)

\* mutant of letters_to_color_id: plain base 26, the letters counting 0..25
letters_to_color_id_plain(s) ==
    LET RECURSIVE Acc(_, _)
        Acc(rest, acc) ==
            IF rest = <<>> THEN acc
            ELSE IF letter_to_color_id(Head(rest)) < 0 THEN -1
            ELSE Acc(Tail(rest), acc * 26 + letter_to_color_id(Head(rest)))
    IN  IF s = <<>> THEN -1 ELSE Acc(s, 0)

\* letters_to_color_id: "A" is 0, "Z" 25, "AA" 26, ...; None is -1
letters_to_color_id(s) ==
    IF s = <<>> \/ LettersAcc(s, 0) < 0 THEN -1 ELSE LettersAcc(s, 0) - 1

RECURSIVE TrimStart(_)
\* str::trim, the white space of the model being the blank
TrimStart(s) == IF s # <<>> /\ Head(s) = " " THEN TrimStart(Tail(s)) ELSE s

RECURSIVE TrimEnd(_)
TrimEnd(s) ==
    IF s # <<>> /\ s[Len(s)] = " " THEN TrimEnd(SubSeq(s, 1, Len(s) - 1)) ELSE s

Trim(repr) == TrimEnd(TrimStart(repr))

\* mutant of FluidPacket_new_from_token: the token is not trimmed
FluidPacket_new_from_token_untrimmed(repr) ==
    IF repr = <<>> \/ repr = <<".">> THEN Empty
    ELSE IF letters_to_color_id(repr) >= 0 THEN Fluid(letters_to_color_id(repr))
    ELSE Empty

\* FluidPacket::new_from_repr on a token of any length (a sequence of
\* characters)
FluidPacket_new_from_token(repr) ==
    LET s == Trim(repr)
    IN  IF s = <<>> \/ s = <<".">> THEN Empty
        ELSE IF letters_to_color_id(s) >= 0 THEN Fluid(letters_to_color_id(s))
        ELSE Empty

RECURSIVE LetterDigits(_)
\* the while loop of get_letter_representation on the 1-based id, the
\* letters already in reading order
LetterDigits(id) ==
    IF id <= 0 THEN <<>>
    ELSE LetterDigits((id - 1) \div 26) \o <<Letters[((id - 1) % 26) + 1]>>

\* get_letter_representation: "." for Empty, the letters of the id otherwise
get_letter_representation(p) ==
    IF FluidPacket_is_empty(p) THEN <<".">> ELSE LetterDigits(p + 1)

\* ---------------------------------------------------------- FluidContainer
EmptySlots(n) == [i \in 1..n |-> Empty]

FluidContainer_new(capacity) ==
    [packets |-> EmptySlots(capacity), capacity |-> capacity]

RECURSIVE SplitCommas(_, _)
\* str::split(','): the pieces between the commas, token being the piece
\* that is being read
SplitCommas(repr, token) ==
    IF repr = <<>> THEN <<token>>
    ELSE IF Head(repr) = "," THEN <<token>> \o SplitCommas(Tail(repr), <<>>)
    ELSE SplitCommas(Tail(repr), Append(token, Head(repr)))

\* new_from_repr: with a comma in the line one packet per non-empty piece
\* between commas, without one packet per character; then the filled
\* packets are moved in front of the empty ones.
FluidContainer_new_from_repr(repr) ==
    LET use_commas == \E i \in 1..Len(repr) : repr[i] = ","
        tokens == SelectSeq(SplitCommas(repr, <<>>), LAMBDA token : token # <<>>)
        packets == IF use_commas
                   THEN [i \in 1..Len(tokens) |-> FluidPacket_new_from_token(tokens[i])]
                   ELSE [i \in 1..Len(repr) |-> FluidPacket_new_from_repr(repr[i])]
        non_empty_packets == SelectSeq(packets, LAMBDA p : ~FluidPacket_is_empty(p))
        empty_count == Len(packets) - Len(non_empty_packets)
        all == non_empty_packets \o EmptySlots(empty_count)
    IN  [packets |-> all, capacity |-> Len(all)]

RECURSIVE JoinWith(_, _)
\* Vec<String>::join
JoinWith(strings, separator) ==
    IF strings = <<>> THEN <<>>
    ELSE IF Len(strings) = 1 THEN strings[1]
    ELSE strings[1] \o separator \o JoinWith(Tail(strings), separator)

\* FluidContainer::get_text_representation: the packets' letters, joined by
\* commas when a packet takes more than one letter
FluidContainer_get_text_representation(c) ==
    LET repr == [i \in 1..Len(c.packets) |-> get_letter_representation(c.packets[i])]
        has_multi_char == \E i \in 1..Len(repr) : Len(repr[i]) > 1
        separator == IF has_multi_char THEN <<",">> ELSE <<>>
    IN  JoinWith(repr, separator)

\* mutant of resize: the packets above the new capacity are not dropped
resize_no_truncate(c, new_capacity) ==
    [packets |->
        IF new_capacity > c.capacity
        THEN c.packets \o EmptySlots(new_capacity - c.capacity)
        ELSE c.packets,
     capacity |-> new_capacity]

resize(c, new_capacity) ==
    [packets |->
        IF new_capacity > c.capacity
        THEN c.packets \o EmptySlots(new_capacity - c.capacity)
        ELSE IF new_capacity < c.capacity
        THEN SubSeq(c.packets, 1, Min(new_capacity, Len(c.packets)))
        ELSE c.packets,
     capacity |-> new_capacity]

\* saturating_sub / saturating_add of usize (the upper saturation is out of
\* reach of any capacity of the model)
change_capacity(c, delta) ==
    LET new_capacity == IF delta < 0
                        THEN (IF c.capacity >= -delta THEN c.capacity + delta ELSE 0)
                        ELSE c.capacity + delta
    IN  resize(c, new_capacity)

is_full(c) == \A i \in 1..Len(c.packets) : ~FluidPacket_is_empty(c.packets[i])

is_empty(c) == \A i \in 1..Len(c.packets) : FluidPacket_is_empty(c.packets[i])

get_empty_space(c) ==
    Cardinality({i \in 1..Len(c.packets) : FluidPacket_is_empty(c.packets[i])})

get_capacity(c) == c.capacity

get_filled_amount(c) == get_capacity(c) - get_empty_space(c)

\* index of the highest filled slot, 0 when there is none
TopIndex(c) ==
    LET filled == {i \in 1..Len(c.packets) : ~FluidPacket_is_empty(c.packets[i])}
    IN  IF filled = {} THEN 0 ELSE CHOOSE i \in filled : \A j \in filled : j <= i

get_top_fluid(c) == IF TopIndex(c) = 0 THEN Empty ELSE c.packets[TopIndex(c)]

\* mutant of get_top_fluid_depth: the loop over the lower slots is forgotten
get_top_fluid_depth_top_only(c) == IF TopIndex(c) = 0 THEN 0 ELSE 1

RECURSIVE BlockDepthFrom(_, _, _)
\* the second loop of get_top_fluid_depth: slots of top_color_id from index i down
BlockDepthFrom(packets, i, top_color_id) ==
    IF i >= 1 /\ packets[i] = top_color_id
    THEN 1 + BlockDepthFrom(packets, i - 1, top_color_id)
    ELSE 0

get_top_fluid_depth(c) ==
    IF TopIndex(c) = 0 THEN 0
    ELSE 1 + BlockDepthFrom(c.packets, TopIndex(c) - 1, c.packets[TopIndex(c)])

\* mutant of add_fluid: the last empty slot takes the packet
add_fluid_last_slot(c, packet) ==
    LET empties == {i \in 1..Len(c.packets) : FluidPacket_is_empty(c.packets[i])}
    IN  IF empties = {} THEN [c |-> c, ret |-> FALSE]
        ELSE LET i == CHOOSE k \in empties : \A j \in empties : k >= j
             IN  [c |-> [c EXCEPT !.packets[i] = packet], ret |-> TRUE]

\* add_fluid: the first empty slot takes the packet
add_fluid(c, packet) ==
    LET empties == {i \in 1..Len(c.packets) : FluidPacket_is_empty(c.packets[i])}
    IN  IF empties = {} THEN [c |-> c, ret |-> FALSE]
        ELSE LET i == CHOOSE k \in empties : \A j \in empties : k <= j
             IN  [c |-> [c EXCEPT !.packets[i] = packet], ret |-> TRUE]

push_fluid(c, packet) ==
    IF is_empty(c) \/ get_top_fluid(c) = packet
    THEN add_fluid(c, packet)
    ELSE [c |-> c, ret |-> FALSE]

\* mutant of pop_fluid: the packet is returned but its slot is not emptied
pop_fluid_keeps_slot(c) ==
    IF TopIndex(c) = 0 THEN [c |-> c, ret |-> Empty]
    ELSE [c |-> c, ret |-> c.packets[TopIndex(c)]]

\* pop_fluid: the highest filled slot is emptied and its packet returned
pop_fluid(c) ==
    IF TopIndex(c) = 0 THEN [c |-> c, ret |-> Empty]
    ELSE [c |-> [c EXCEPT !.packets[TopIndex(c)] = Empty], ret |-> c.packets[TopIndex(c)]]

\* mutant of get_pourable_amount: an empty destination is not let through
get_pourable_amount_strict(self, other) ==
    IF get_top_fluid(self) # get_top_fluid(other) THEN 0
    ELSE Min(get_top_fluid_depth(self), get_empty_space(other))

get_pourable_amount(self, other) ==
    IF get_top_fluid(self) # get_top_fluid(other) /\ ~is_empty(other) THEN 0
    ELSE Min(get_top_fluid_depth(self), get_empty_space(other))

could_pour_into(self, other) == get_pourable_amount(self, other) > 0

RECURSIVE PourLoop(_, _, _)
\* the loop of pour_into: n times pop from self and push onto other
PourLoop(self, other, n) ==
    IF n = 0 THEN [self |-> self, other |-> other]
    ELSE LET popped == pop_fluid(self)
             pushed == push_fluid(other, popped.ret)
         IN  PourLoop(popped.c, pushed.c, n - 1)

pour_into(self, other) ==
    LET transfer_amount == get_pourable_amount(self, other)
    IN  IF transfer_amount = 0
        THEN [self |-> self, other |-> other, ret |-> FALSE]
        ELSE LET r == PourLoop(self, other, transfer_amount)
             IN  [self |-> r.self, other |-> r.other, ret |-> TRUE]

\* mutant of get_reverse_pourable_amount: no packet is kept back
get_reverse_pourable_amount_all(self, other) ==
    Min(get_empty_space(other), get_top_fluid_depth(self))

\* mutant of get_reverse_pourable_amount: a packet is kept back even when the
\* top block is all the container holds
get_reverse_pourable_amount_keeps_one(self, other) ==
    LET depth == get_top_fluid_depth(self)
    IN  Min(get_empty_space(other), IF depth > 0 THEN depth - 1 ELSE 0)

get_reverse_pourable_amount(self, other) ==
    LET space == get_empty_space(other)
        depth == get_top_fluid_depth(self)
        self_depth == IF depth # get_filled_amount(self) THEN depth - 1 ELSE depth
    IN  Min(space, self_depth)

could_reverse_pour_into(self, other) == get_reverse_pourable_amount(self, other) > 0

RECURSIVE ReversePourLoop_push(_, _, _)
\* mutant of ReversePourLoop: the packet is pushed, as pour_into does
ReversePourLoop_push(self, other, n) ==
    IF n = 0 THEN [self |-> self, other |-> other]
    ELSE LET popped == pop_fluid(self)
             pushed == push_fluid(other, popped.ret)
         IN  ReversePourLoop_push(popped.c, pushed.c, n - 1)

RECURSIVE ReversePourLoop(_, _, _)
\* the loop of reverse_pour_into: n times pop from self and add to other
ReversePourLoop(self, other, n) ==
    IF n = 0 THEN [self |-> self, other |-> other]
    ELSE LET popped == pop_fluid(self)
             added == add_fluid(other, popped.ret)
         IN  ReversePourLoop(popped.c, added.c, n - 1)

\* mutant of reverse_pour_into: the amount asked for is not looked at
reverse_pour_into_whole(self, other, amount) ==
    LET transfer_amount == get_reverse_pourable_amount(self, other)
    IN  IF transfer_amount = 0
        THEN [self |-> self, other |-> other, ret |-> FALSE]
        ELSE LET r == ReversePourLoop(self, other, transfer_amount)
             IN  [self |-> r.self, other |-> r.other, ret |-> TRUE]

reverse_pour_into(self, other, amount) ==
    LET transfer_amount == Min(get_reverse_pourable_amount(self, other), amount)
    IN  IF transfer_amount = 0
        THEN [self |-> self, other |-> other, ret |-> FALSE]
        ELSE LET r == ReversePourLoop(self, other, transfer_amount)
             IN  [self |-> r.self, other |-> r.other, ret |-> TRUE]

\* ---------------------------------------------------------------- GameState
\* A MoveAction is [from_container, to_container, amount]; indices 1-based.
MoveAction(from, to, amount) ==
    [from_container |-> from, to_container |-> to, amount |-> amount]

\* GameState::new_from_repr: one container per line, zero-capacity ones skipped
GameState_new_from_repr(lines) ==
    SelectSeq([i \in 1..Len(lines) |-> FluidContainer_new_from_repr(lines[i])],
              LAMBDA c : get_capacity(c) # 0)

\* GameState::get_text_representation: one line per container.  A text is
\* kept as the sequence of its lines: push('\n') between the containers
\* here, lines() in new_from_repr there.
GameState_get_text_representation(cs) ==
    [i \in 1..Len(cs) |-> FluidContainer_get_text_representation(cs[i])]

\* mutant of MoveFaults: only the range of the indices is looked at
MoveFaults_range_only(cs, action) ==
    ~(action.from_container \in 1..Len(cs) /\ action.to_container \in 1..Len(cs))

\* The indexing of apply_move / apply_reverse_move, which panics before
\* anything is written: split_at_mut(mid) panics when mid is beyond the
\* length, left[i] when i is not below mid, right[0] when mid is the length.
\* from and to are the 0-based indices of the code.
MoveFaults(cs, action) ==
    LET from == action.from_container - 1
        to == action.to_container - 1
        len == Len(cs)
    IN  IF from < to
        THEN to > len \/ from >= to \/ len - to = 0
        ELSE from > len \/ len - from = 0 \/ to >= from

\* mutant of apply_move: what is poured goes to the container after the
\* source
apply_move_next_container(cs, action) ==
    IF MoveFaults(cs, action) THEN cs
    ELSE LET from == action.from_container
             r == pour_into(cs[from], cs[(from % Len(cs)) + 1])
         IN  [cs EXCEPT ![from] = r.self, ![(from % Len(cs)) + 1] = r.other]

\* mutant of apply_move: a move whose amount is 0 pours nothing
apply_move_by_amount(cs, action) ==
    IF MoveFaults(cs, action) \/ action.amount = 0 THEN cs
    ELSE LET r == pour_into(cs[action.from_container], cs[action.to_container])
         IN  [cs EXCEPT ![action.from_container] = r.self, ![action.to_container] = r.other]

apply_move(cs, action) ==
    IF MoveFaults(cs, action) THEN cs
    ELSE LET from == action.from_container
             to == action.to_container
             r == pour_into(cs[from], cs[to])
         IN  [cs EXCEPT ![from] = r.self, ![to] = r.other]

apply_reverse_move(cs, action) ==
    IF MoveFaults(cs, action) THEN cs
    ELSE LET from == action.from_container
             to == action.to_container
             r == reverse_pour_into(cs[from], cs[to], action.amount)
         IN  [cs EXCEPT ![from] = r.self, ![to] = r.other]

\* all slots of the state in the order the loops visit them
AllPackets(cs) ==
    LET RECURSIVE Flat(_)
        Flat(i) == IF i > Len(cs) THEN <<>> ELSE cs[i].packets \o Flat(i + 1)
    IN  Flat(1)

RECURSIVE CountColors(_, _)
\* the loop body of get_available_colors_with_count over the slots left
CountColors(flat, color_counts) ==
    IF flat = <<>> THEN color_counts
    ELSE IF FluidPacket_is_empty(Head(flat)) THEN CountColors(Tail(flat), color_counts)
    ELSE IF \E n \in 1..Len(color_counts) : color_counts[n][1] = Head(flat)
    THEN LET n == CHOOSE m \in 1..Len(color_counts) : color_counts[m][1] = Head(flat)
         IN  CountColors(Tail(flat), [color_counts EXCEPT ![n] = <<@[1], @[2] + 1>>])
    ELSE CountColors(Tail(flat), Append(color_counts, <<Head(flat), 1>>))

\* the (color id, count) pairs in order of first appearance
get_available_colors_with_count(cs) == CountColors(AllPackets(cs), <<>>)

get_empty_spaces_count(cs) == SumSeq([i \in 1..Len(cs) |-> get_empty_space(cs[i])])

\* the capacities of the containers, in their order
Capacities(cs) == [i \in 1..Len(cs) |-> get_capacity(cs[i])]

\* ----------------------------------------------------- canonical equality
RECURSIVE cmp_packets(_, _)
\* Vec<FluidPacket>::cmp, lexicographic: -1 less, 0 equal, 1 greater
cmp_packets(a, b) ==
    IF a = <<>> /\ b = <<>> THEN 0
    ELSE IF a = <<>> THEN -1
    ELSE IF b = <<>> THEN 1
    ELSE IF Head(a) < Head(b) THEN -1
    ELSE IF Head(a) > Head(b) THEN 1
    ELSE cmp_packets(Tail(a), Tail(b))

\* mutant of FluidContainer_cmp: containers are ordered by capacity alone
FluidContainer_cmp_by_capacity(a, b) ==
    IF a.capacity < b.capacity THEN -1 ELSE IF a.capacity > b.capacity THEN 1 ELSE 0

\* impl Ord for FluidContainer: the packets decide
FluidContainer_cmp(a, b) == cmp_packets(a.packets, b.packets)

RECURSIVE InsertSorted(_, _)
\* c is put behind every element that is not greater than it (stable)
InsertSorted(sorted, c) ==
    IF sorted = <<>> THEN <<c>>
    ELSE IF FluidContainer_cmp(c, Head(sorted)) < 0 THEN <<c>> \o sorted
    ELSE <<Head(sorted)>> \o InsertSorted(Tail(sorted), c)

RECURSIVE SortContainers(_)
\* Vec::sort, a stable sort by FluidContainer_cmp
SortContainers(cs) ==
    IF cs = <<>> THEN <<>>
    ELSE InsertSorted(SortContainers(SubSeq(cs, 1, Len(cs) - 1)), cs[Len(cs)])

get_sorted_containers(cs) == SortContainers(cs)

\* mutant of GameState_eq: only which slots are filled is compared
GameState_eq_by_shape(a, b) ==
    LET shape(cs) == [i \in 1..Len(cs) |->
                        [cs[i] EXCEPT !.packets =
                            [j \in 1..Len(cs[i].packets) |->
                                IF FluidPacket_is_empty(cs[i].packets[j]) THEN Empty ELSE 0]]]
    IN  get_sorted_containers(shape(a)) = get_sorted_containers(shape(b))

\* impl PartialEq for GameState
GameState_eq(a, b) == get_sorted_containers(a) = get_sorted_containers(b)

\* ------------------------------------------------------------ move listing
\* mutant of ReverseMoveAmount: limit_size is not looked at
ReverseMoveAmount_unlimited(cs, from, to, limit_size) ==
    get_reverse_pourable_amount(cs[from], cs[to])

\* the amount get_possible_reverse_moves lists for the pair (from, to)
ReverseMoveAmount(cs, from, to, limit_size) ==
    LET amount == get_reverse_pourable_amount(cs[from], cs[to])
    IN  IF limit_size /\ get_filled_amount(cs[from]) = amount THEN amount - 1 ELSE amount

\* mutant of get_possible_reverse_moves: pairs showing the same top fluid
\* are listed too
get_possible_reverse_moves_same_top(cs, limit_size) ==
    {MoveAction(p[1], p[2], ReverseMoveAmount(cs, p[1], p[2], limit_size)) :
        p \in {q \in (1..Len(cs)) \X (1..Len(cs)) :
            /\ ~is_empty(cs[q[1]])
            /\ q[1] # q[2]
            /\ ReverseMoveAmount(cs, q[1], q[2], limit_size) > 0}}

\* solver.rs get_possible_reverse_moves: pairs are skipped when the two
\* containers compare equal (by value) or show the same top fluid
get_possible_reverse_moves(cs, limit_size) ==
    {MoveAction(p[1], p[2], ReverseMoveAmount(cs, p[1], p[2], limit_size)) :
        p \in {q \in (1..Len(cs)) \X (1..Len(cs)) :
            /\ ~is_empty(cs[q[1]])
            /\ ~(cs[q[1]] = cs[q[2]] \/ get_top_fluid(cs[q[1]]) = get_top_fluid(cs[q[2]]))
            /\ ReverseMoveAmount(cs, q[1], q[2], limit_size) > 0}}

\* GameState::get_top_colors: the top color of every non-empty container, in
\* the order of the containers
get_top_colors(cs) ==
    SelectSeq([i \in 1..Len(cs) |-> get_top_fluid(cs[i])],
              LAMBDA packet : ~FluidPacket_is_empty(packet))

\* the loops of get_possible_moves: for color in get_top_colors(), for
\* from_container, for to_container, in this order
PossibleMovesVisits(colors, n) ==
    [k \in 1..(Len(colors) * n * n) |->
        [color |-> colors[((k - 1) \div (n * n)) + 1],
         from_index |-> (((k - 1) \div n) % n) + 1,
         to_index |-> ((k - 1) % n) + 1]]

\* a source that is empty or shows another color is passed over (continue),
\* and so is the source as its own destination
PossibleMovesLookedAt(cs, visits) ==
    SelectSeq(visits, LAMBDA v :
        /\ ~(is_empty(cs[v.from_index]) \/ get_top_fluid(cs[v.from_index]) # v.color)
        /\ v.from_index # v.to_index)

\* the pours looked at, with the amount each would move
PossibleMovesAmounts(cs, looked_at) ==
    [k \in 1..Len(looked_at) |->
        MoveAction(looked_at[k].from_index, looked_at[k].to_index,
                   get_pourable_amount(cs[looked_at[k].from_index],
                                       cs[looked_at[k].to_index]))]

PossibleMovesLoop(cs) ==
    PossibleMovesAmounts(cs,
        PossibleMovesLookedAt(cs, PossibleMovesVisits(get_top_colors(cs), Len(cs))))

\* mutant of get_possible_moves: every pour that moves something is listed
get_possible_moves_any_amount(cs) ==
    SelectSeq(PossibleMovesLoop(cs), LAMBDA m : m.amount > 0)

\* solver.rs get_possible_moves: a pour is pushed when it moves the whole top
\* block of its source
get_possible_moves(cs) ==
    SelectSeq(PossibleMovesLoop(cs),
              LAMBDA m : m.amount = get_top_fluid_depth(cs[m.from_container]))

\* ------------------------------------------------------------------ shuffle
ShuffleIterations == 1000

\* mutant of ShuffleCandidates: the two retain() calls are left out
ShuffleCandidates_all_listed(cs) == get_possible_reverse_moves(cs, TRUE)

\* one iteration of shuffle(): the listed reverse moves, kept when the
\* destination has the smallest and the source the largest top-block depth
ShuffleCandidates(cs) ==
    LET depths == {get_top_fluid_depth(cs[i]) : i \in 1..Len(cs)}
        reverse_moves == get_possible_reverse_moves(cs, TRUE)
        smallest_indices == {i \in 1..Len(cs) :
                                \A d \in depths : get_top_fluid_depth(cs[i]) <= d}
        largest_indices == {i \in 1..Len(cs) :
                                \A d \in depths : get_top_fluid_depth(cs[i]) >= d}
    IN  {m \in reverse_moves : m.to_container \in smallest_indices
                               /\ m.from_container \in largest_indices}

\* --------------------------------------------------------- solvability oracle
UsizeHuge == 1000000
\* HashMap helpers: a map is a function on its key set
Get(map, key) == IF key \in DOMAIN map THEN map[key] ELSE 0
Put(map, key, val) ==
    [x \in DOMAIN map \cup {key} |-> IF x = key THEN val ELSE map[x]]
EmptyMap == [x \in {} |-> 0]

\* mutant of is_solved: a container of one color need not be full
is_solved_one_color(cs) ==
    \A i \in 1..Len(cs) :
        is_empty(cs[i]) \/ get_top_fluid_depth(cs[i]) = get_filled_amount(cs[i])

\* is_solved: every container is empty or filled to capacity with one color
is_solved(cs) ==
    \A i \in 1..Len(cs) :
        is_empty(cs[i]) \/ get_top_fluid_depth(cs[i]) = get_capacity(cs[i])

\* the counts of get_available_colors_with_count, in its order
LiquidCounts(cs) ==
    LET cc == get_available_colors_with_count(cs)
    IN  [n \in 1..Len(cc) |-> cc[n][2]]

\* capacity -> number of containers of that capacity
ContainerSizeMap(cs) ==
    [size \in {get_capacity(cs[i]) : i \in 1..Len(cs)} |->
        Cardinality({i \in 1..Len(cs) : get_capacity(cs[i]) = size})]

\* mutant of fast_is_definitely_solvable: a size that no container has is
\* passed over
fast_is_definitely_solvable_sizes_present(cs) ==
    LET container_size_map == ContainerSizeMap(cs)
        counts == LiquidCounts(cs)
        liquid_size_map == [liquid_size \in Range(counts) |->
                              Cardinality({n \in 1..Len(counts) : counts[n] = liquid_size})]
    IN  \A liquid_size \in DOMAIN liquid_size_map \cap DOMAIN container_size_map :
            ~(liquid_size_map[liquid_size] > container_size_map[liquid_size])

fast_is_definitely_solvable(cs) ==
    LET container_size_map == ContainerSizeMap(cs)
        counts == LiquidCounts(cs)
        liquid_size_map == [liquid_size \in Range(counts) |->
                              Cardinality({n \in 1..Len(counts) : counts[n] = liquid_size})]
    IN  \A liquid_size \in DOMAIN liquid_size_map :
            ~(liquid_size_map[liquid_size] > Get(container_size_map, liquid_size))

RECURSIVE ReachableSizes(_, _)
\* the loop over the containers: every reachable size r also gives r + c
ReachableSizes(caps, reachable_sizes) ==
    IF caps = <<>> THEN reachable_sizes
    ELSE ReachableSizes(Tail(caps),
                        reachable_sizes \cup {r + Head(caps) : r \in reachable_sizes})

\* mutant of fast_is_definitely_unsolvable: only the empty space is looked at
fast_is_definitely_unsolvable_space_only(cs) ==
    get_empty_spaces_count(cs) \notin ReachableSizes(Capacities(cs), {0})

fast_is_definitely_unsolvable(cs) ==
    LET reachable_sizes == ReachableSizes(Capacities(cs), {0})
        liquids_ == LiquidCounts(cs)
    IN  \/ \E n \in 1..Len(liquids_) : liquids_[n] \notin reachable_sizes
        \/ get_empty_spaces_count(cs) \notin reachable_sizes

\* a verdict as the variable result holds it
Bool(b) == IF b THEN "true" ELSE "false"

\* mutant of fast_is_maybe_solvable: the test of stage 1 is left out
fast_is_maybe_solvable_no_stage1(cs) ==
    IF is_solved(cs) THEN [verdict |-> Bool(TRUE), stage |-> "solved"]
    ELSE IF Cardinality({get_capacity(cs[i]) : i \in 1..Len(cs)}) = 1
    THEN [verdict |-> Bool(TRUE), stage |-> "same_size"]
    ELSE IF fast_is_definitely_solvable(cs)
    THEN [verdict |-> Bool(TRUE), stage |-> "fast_solvable"]
    ELSE [verdict |-> "none", stage |-> "none"]

\* fast_is_maybe_solvable: the verdict and the stage that gave it;
\* verdict "none" for None
fast_is_maybe_solvable(cs) ==
    IF is_solved(cs) THEN [verdict |-> Bool(TRUE), stage |-> "solved"]
    ELSE IF fast_is_definitely_unsolvable(cs)
    THEN [verdict |-> Bool(FALSE), stage |-> "unsolvable"]
    ELSE IF Cardinality({get_capacity(cs[i]) : i \in 1..Len(cs)}) = 1
    THEN [verdict |-> Bool(TRUE), stage |-> "same_size"]
    ELSE IF fast_is_definitely_solvable(cs)
    THEN [verdict |-> Bool(TRUE), stage |-> "fast_solvable"]
    ELSE [verdict |-> "none", stage |-> "none"]

RECURSIVE SortedDescending(_)
\* the (size, count) pairs of a size map, largest size first
SortedDescending(map) ==
    IF DOMAIN map = {} THEN <<>>
    ELSE LET top == CHOOSE x \in DOMAIN map : \A y \in DOMAIN map : y <= x
         IN  <<<<top, map[top]>>>> \o SortedDescending([x \in DOMAIN map \ {top} |-> map[x]])

\* mutant of LiquidSizeVec: the empty space is always a target
LiquidSizeVec_always_space(cs) ==
    Append(LiquidCounts(cs), get_empty_spaces_count(cs))

\* liquid_size_vec as is_solvable builds it: the color counts, and the empty
\* space when the largest count is greater than it
LiquidSizeVec(cs) ==
    LET counts == LiquidCounts(cs)
        largest == IF counts = <<>> THEN 0
                   ELSE CHOOSE x \in Range(counts) : \A y \in Range(counts) : y <= x
    IN  IF largest > get_empty_spaces_count(cs)
        THEN Append(counts, get_empty_spaces_count(cs))
        ELSE counts

RECURSIVE EnumerateFrom_stale(_, _, _, _, _, _, _, _)
\* mutant of EnumerateFrom: the count chosen for a capacity that is not the
\* last one is not written into chosen_so_far
EnumerateFrom_stale(vec, chosen_so_far, index, k, target_sizes, max_size, sum_so_far, out) ==
    LET value == vec[index][1]
        count == vec[index][2]
        new_sum == sum_so_far + value * k
    IN  IF k > count THEN [chosen |-> chosen_so_far, out |-> out]
        ELSE IF new_sum > max_size THEN [chosen |-> chosen_so_far, out |-> out]
        ELSE IF index + 1 > Len(vec)
        THEN IF new_sum \in target_sizes
             THEN LET chosen == Put(chosen_so_far, value, k)
                  IN  EnumerateFrom_stale(vec, chosen, index, k + 1, target_sizes, max_size,
                                          sum_so_far, [out EXCEPT ![new_sum] = Append(@, chosen)])
             ELSE EnumerateFrom_stale(vec, chosen_so_far, index, k + 1, target_sizes,
                                      max_size, sum_so_far, out)
        ELSE LET r == EnumerateFrom_stale(vec, chosen_so_far, index + 1, 0, target_sizes,
                                          max_size, new_sum, out)
             IN  EnumerateFrom_stale(vec, r.chosen, index, k + 1, target_sizes, max_size,
                                     sum_so_far, r.out)

RECURSIVE EnumerateFrom(_, _, _, _, _, _, _, _)
\* enumerate_subsets_to_target_size from iteration k of its for loop on;
\* chosen_so_far and hashmap_to_add_to are handed on as the code mutates them
EnumerateFrom(vec, chosen_so_far, index, k, target_sizes, max_size, sum_so_far, out) ==
    LET value == vec[index][1]
        count == vec[index][2]
        new_sum == sum_so_far + value * k
    IN  IF k > count THEN [chosen |-> chosen_so_far, out |-> out]
        ELSE IF new_sum > max_size THEN [chosen |-> chosen_so_far, out |-> out]
        ELSE IF index + 1 > Len(vec)
        THEN IF new_sum \in target_sizes
             THEN LET chosen == Put(chosen_so_far, value, k)
                  IN  EnumerateFrom(vec, chosen, index, k + 1, target_sizes, max_size,
                                    sum_so_far, [out EXCEPT ![new_sum] = Append(@, chosen)])
             ELSE EnumerateFrom(vec, chosen_so_far, index, k + 1, target_sizes, max_size,
                                sum_so_far, out)
        ELSE LET chosen == Put(chosen_so_far, value, k)
                 r == EnumerateFrom(vec, chosen, index + 1, 0, target_sizes, max_size,
                                    new_sum, out)
             IN  EnumerateFrom(vec, r.chosen, index, k + 1, target_sizes, max_size,
                               sum_so_far, r.out)

enumerate_subsets_to_target_size(vec, target_sizes, max_size) ==
    EnumerateFrom(vec, EmptyMap, 1, 0, target_sizes, max_size, 0,
                  [t \in target_sizes |-> <<>>]).out

\* ways_to_get_liquids as is_solvable has it before the pruning loop
InitialWays(cs) ==
    LET liquid_sizes_set == Range(LiquidSizeVec(cs))
        max_size == IF liquid_sizes_set = {} THEN 0
                    ELSE CHOOSE x \in liquid_sizes_set : \A y \in liquid_sizes_set : y <= x
    IN  enumerate_subsets_to_target_size(SortedDescending(ContainerSizeMap(cs)),
                                         liquid_sizes_set, max_size)

\* a - b in usize where it wraps: a wrapped difference is above every count
\* of the model, for which UsizeHuge stands
usize_sub(a, b) == IF a >= b THEN a - b ELSE UsizeHuge

\* the retain closure of the pruning loop: the solution is kept when, for
\* every size of the forced way, the containers it leaves are enough
RetainSolution(solution, way, liquid_count_using_way, size_map) ==
    \A container_size \in DOMAIN way :
        ~(usize_sub(Get(size_map, container_size), Get(solution, container_size))
            < way[container_size] * liquid_count_using_way)

\* 'available_containers - *entry' with entry the larger one
RetainUnderflows(solution, way, size_map) ==
    \E container_size \in DOMAIN way :
        Get(size_map, container_size) < Get(solution, container_size)

RECURSIVE recursive_is_solvable_first_way(_, _, _)
\* mutant of recursive_is_solvable: only the first way of a target is tried
recursive_is_solvable_first_way(ways_to_get_liquids, remaining_container_sizes, liquid_sizes) ==
    IF liquid_sizes = <<>> THEN TRUE
    ELSE IF Head(liquid_sizes) \notin DOMAIN ways_to_get_liquids THEN FALSE
    ELSE IF ways_to_get_liquids[Head(liquid_sizes)] = <<>> THEN FALSE
    ELSE LET way == ways_to_get_liquids[Head(liquid_sizes)][1]
         IN  /\ \A size \in DOMAIN way : ~(Get(remaining_container_sizes, size) < way[size])
             /\ recursive_is_solvable_first_way(
                     ways_to_get_liquids,
                     [size \in DOMAIN remaining_container_sizes \cup DOMAIN way |->
                         Get(remaining_container_sizes, size) - Get(way, size)],
                     Tail(liquid_sizes))

RECURSIVE recursive_is_solvable_no_backtrack(_, _, _)
\* mutant of recursive_is_solvable: the first way that fits is taken and
\* never given up
recursive_is_solvable_no_backtrack(ways_to_get_liquids, remaining_container_sizes, liquid_sizes) ==
    IF liquid_sizes = <<>> THEN TRUE
    ELSE IF Head(liquid_sizes) \notin DOMAIN ways_to_get_liquids THEN FALSE
    ELSE LET current == ways_to_get_liquids[Head(liquid_sizes)]
             fits == {n \in 1..Len(current) :
                         \A size \in DOMAIN current[n] :
                             ~(Get(remaining_container_sizes, size) < current[n][size])}
         IN  IF fits = {} THEN FALSE
             ELSE LET way == current[CHOOSE n \in fits : \A m \in fits : n <= m]
                  IN  recursive_is_solvable_no_backtrack(
                          ways_to_get_liquids,
                          [size \in DOMAIN remaining_container_sizes \cup DOMAIN way |->
                              Get(remaining_container_sizes, size) - Get(way, size)],
                          Tail(liquid_sizes))

RECURSIVE recursive_is_solvable(_, _, _)
\* The branches over the ways run in parallel and share the flag 'found',
\* which only a branch that has matched every liquid sets; read early it
\* makes a call return true that has a true sibling, so the verdict is the
\* one of the sequential search written here.
recursive_is_solvable(ways_to_get_liquids, remaining_container_sizes, liquid_sizes) ==
    IF liquid_sizes = <<>> THEN TRUE
    ELSE IF Head(liquid_sizes) \notin DOMAIN ways_to_get_liquids THEN FALSE
    ELSE \E n \in 1..Len(ways_to_get_liquids[Head(liquid_sizes)]) :
            LET way == ways_to_get_liquids[Head(liquid_sizes)][n]
            IN  /\ \A size \in DOMAIN way : ~(Get(remaining_container_sizes, size) < way[size])
                /\ recursive_is_solvable(
                        ways_to_get_liquids,
                        [size \in DOMAIN remaining_container_sizes \cup DOMAIN way |->
                            Get(remaining_container_sizes, size) - Get(way, size)],
                        Tail(liquid_sizes))

\* =================================================================== actions
NoOp == [op |-> "none", from |-> 0, to |-> 0, arg |-> 0, ret |-> FALSE, before |-> <<>>]

Op(name, from, to, arg, ret) ==
    [op |-> name, from |-> from, to |-> to, arg |-> arg, ret |-> ret, before |-> containers]

\* Selection: None, Container(index), Color(index)
Selection_None == [kind |-> "None", index |-> 0]
Selection_Container(index) == [kind |-> "Container", index |-> index]
Selection_Color(index) == [kind |-> "Color", index |-> index]

\* no GameEngine has been built
EngineIdle ==
    /\ starting_state = <<>> /\ selected = Selection_None /\ undo_enable = FALSE
    /\ undo_stack = <<>> /\ redo_stack = <<>> /\ editor_mode = FALSE
    /\ clipboard = <<>> /\ handled = 0

\* the variables only shuffle() and is_solvable() write
ShuffleIdle == shuffleStart = <<>> /\ history = <<>> /\ iter = 0
OracleIdle ==
    /\ ways = <<>> /\ pool = <<>> /\ liquids = <<>> /\ stage = "none" /\ result = "none"
    /\ tasks = <<>> /\ found = FALSE

\* the text lines a container is parsed from: at most MaxCap characters
Alphabet == {"."} \cup {Letters[i] : i \in 1..NColors}
Lines == SeqsUpTo(Alphabet, MaxCap)

\* Two containers, each built by new_from_repr (new(capacity) is the line of
\* capacity dots).
Init ==
    /\ containers \in {<<FluidContainer_new_from_repr(a), FluidContainer_new_from_repr(b)>> :
                            a \in Lines, b \in Lines}
    /\ last = NoOp
    /\ pc = "idle"
    /\ ShuffleIdle
    /\ OracleIdle
    /\ rhs = <<>>
    /\ EngineIdle

AddFluid(i, packet) ==
    /\ pc = "idle"
    /\ LET r == add_fluid(containers[i], packet)
       IN  /\ containers' = [containers EXCEPT ![i] = r.c]
           /\ last' = Op("add_fluid", i, 0, packet, r.ret)
    /\ UNCHANGED <<pc, shuffleStart, history, iter, ways, pool, liquids, stage, result, rhs, tasks, found>>
    /\ UNCHANGED engineVars

PushFluid(i, packet) ==
    /\ pc = "idle"
    /\ LET r == push_fluid(containers[i], packet)
       IN  /\ containers' = [containers EXCEPT ![i] = r.c]
           /\ last' = Op("push_fluid", i, 0, packet, r.ret)
    /\ UNCHANGED <<pc, shuffleStart, history, iter, ways, pool, liquids, stage, result, rhs, tasks, found>>
    /\ UNCHANGED engineVars

PopFluid(i) ==
    /\ pc = "idle"
    /\ LET r == pop_fluid(containers[i])
       IN  /\ containers' = [containers EXCEPT ![i] = r.c]
           /\ last' = Op("pop_fluid", i, 0, r.ret, TRUE)
    /\ UNCHANGED <<pc, shuffleStart, history, iter, ways, pool, liquids, stage, result, rhs, tasks, found>>
    /\ UNCHANGED engineVars

Resize(i, new_capacity) ==
    /\ pc = "idle"
    /\ containers' = [containers EXCEPT ![i] = resize(@, new_capacity)]
    /\ last' = Op("resize", i, 0, new_capacity, TRUE)
    /\ UNCHANGED <<pc, shuffleStart, history, iter, ways, pool, liquids, stage, result, rhs, tasks, found>>
    /\ UNCHANGED engineVars

ChangeCapacity(i, delta) ==
    /\ pc = "idle"
    /\ containers[i].capacity + delta <= MaxCap
    /\ containers' = [containers EXCEPT ![i] = change_capacity(@, delta)]
    /\ last' = Op("change_capacity", i, 0, delta, TRUE)
    /\ UNCHANGED <<pc, shuffleStart, history, iter, ways, pool, liquids, stage, result, rhs, tasks, found>>
    /\ UNCHANGED engineVars

PourInto(i, j) ==
    /\ pc = "idle"
    /\ i # j
    /\ LET r == pour_into(containers[i], containers[j])
       IN  /\ containers' = [containers EXCEPT ![i] = r.self, ![j] = r.other]
           /\ last' = Op("pour_into", i, j, 0, r.ret)
    /\ UNCHANGED <<pc, shuffleStart, history, iter, ways, pool, liquids, stage, result, rhs, tasks, found>>
    /\ UNCHANGED engineVars

ReversePourInto(i, j, amount) ==
    /\ pc = "idle"
    /\ i # j
    /\ LET r == reverse_pour_into(containers[i], containers[j], amount)
       IN  /\ containers' = [containers EXCEPT ![i] = r.self, ![j] = r.other]
           /\ last' = Op("reverse_pour_into", i, j, amount, r.ret)
    /\ UNCHANGED <<pc, shuffleStart, history, iter, ways, pool, liquids, stage, result, rhs, tasks, found>>
    /\ UNCHANGED engineVars

\* a move that faults ends the program with the containers as they were
ApplyMove(from, to, amount) ==
    /\ pc = "idle"
    /\ containers' = apply_move(containers, MoveAction(from, to, amount))
    /\ last' = Op("apply_move", from, to, amount, TRUE)
    /\ pc' = IF MoveFaults(containers, MoveAction(from, to, amount)) THEN "fault" ELSE pc
    /\ UNCHANGED <<shuffleStart, history, iter, ways, pool, liquids, stage, result, rhs, tasks, found>>
    /\ UNCHANGED engineVars

ApplyReverseMove(from, to, amount) ==
    /\ pc = "idle"
    /\ containers' = apply_reverse_move(containers, MoveAction(from, to, amount))
    /\ last' = Op("apply_reverse_move", from, to, amount, TRUE)
    /\ pc' = IF MoveFaults(containers, MoveAction(from, to, amount)) THEN "fault" ELSE pc
    /\ UNCHANGED <<shuffleStart, history, iter, ways, pool, liquids, stage, result, rhs, tasks, found>>
    /\ UNCHANGED engineVars

\* shuffle() is entered
ShuffleStart ==
    /\ pc = "idle"
    /\ pc' = "shuffle"
    /\ shuffleStart' = containers
    /\ history' = <<>>
    /\ iter' = 0
    /\ last' = Op("shuffle", 0, 0, 0, TRUE)
    /\ UNCHANGED <<containers, ways, pool, liquids, stage, result, rhs, tasks, found>>
    /\ UNCHANGED engineVars

\* one iteration of the for loop that finds a move: any candidate may be chosen
ShuffleStep ==
    /\ pc = "shuffle"
    /\ iter < ShuffleIterations
    /\ \E mv \in ShuffleCandidates(containers) :
          /\ containers' = apply_reverse_move(containers, mv)
          /\ history' = Append(history, mv)
          /\ last' = Op("shuffle", mv.from_container, mv.to_container, mv.amount, TRUE)
    /\ iter' = iter + 1
    /\ UNCHANGED <<pc, shuffleStart, ways, pool, liquids, stage, result, rhs, tasks, found>>
    /\ UNCHANGED engineVars

\* the loop ends: 1000 iterations done, or no candidate is left (break)
ShuffleEnd ==
    /\ pc = "shuffle"
    /\ ~(iter < ShuffleIterations /\ ShuffleCandidates(containers) # {})
    /\ pc' = "shuffled"
    /\ UNCHANGED <<containers, last, shuffleStart, history, iter, ways, pool, liquids,
                   stage, result, rhs, tasks, found>>
    /\ UNCHANGED engineVars

Amounts == 0..MaxCap

\* the indices a move may name (usize, here 1-based): those of the
\* containers, the one past the end and the one after it
MoveIndices == 1..(Len(containers) + 2)

Next ==
    \/ \E i \in 1..Len(containers), packet \in Packets : AddFluid(i, packet)
    \/ \E i \in 1..Len(containers), packet \in Packets : PushFluid(i, packet)
    \/ \E i \in 1..Len(containers) : PopFluid(i)
    \/ \E i \in 1..Len(containers), n \in 0..MaxCap : Resize(i, n)
    \/ \E i \in 1..Len(containers), delta \in {-(MaxCap + 1), -1, 1} : ChangeCapacity(i, delta)
    \/ \E i, j \in 1..Len(containers) : PourInto(i, j)
    \/ \E i, j \in 1..Len(containers), amount \in Amounts : ReversePourInto(i, j, amount)
    \/ \E i, j \in MoveIndices, amount \in Amounts : ApplyMove(i, j, amount)
    \/ \E i, j \in MoveIndices, amount \in Amounts : ApplyReverseMove(i, j, amount)
    \/ ShuffleStart
    \/ ShuffleStep
    \/ ShuffleEnd

Spec == Init /\ [][Next]_vars

\* ------------------------------------------------------------ is_solvable()
\* is_solvable() is called on the state at hand: a given one, or the one
\* shuffle() has just left
OracleCalled == pc \in {"oracle", "shuffled"}

\* the fast stages give the verdict
OracleFast ==
    /\ OracleCalled
    /\ fast_is_maybe_solvable(containers).verdict # "none"
    /\ result' = fast_is_maybe_solvable(containers).verdict
    /\ stage' = fast_is_maybe_solvable(containers).stage
    /\ pc' = "done"
    /\ UNCHANGED <<containers, last, shuffleStart, history, iter, ways, pool, liquids, rhs, tasks, found>>
    /\ UNCHANGED engineVars

\* the fast stages are inconclusive: the size map, the target sizes and the
\* ways to reach each of them are built
OracleSetup ==
    /\ OracleCalled
    /\ fast_is_maybe_solvable(containers).verdict = "none"
    /\ pool' = ContainerSizeMap(containers)
    /\ liquids' = LiquidSizeVec(containers)
    /\ ways' = InitialWays(containers)
    /\ pc' = "prune"
    /\ UNCHANGED <<containers, last, shuffleStart, history, iter, stage, result, rhs, tasks, found>>
    /\ UNCHANGED engineVars

Verdict(v) ==
    /\ result' = Bool(v)
    /\ stage' = "exact"
    /\ pc' = "done"
    /\ UNCHANGED <<ways, pool, liquids>>

\* One iteration of the pruning loop.  The target with a single way is the
\* one the hash map's iteration shows first: any of them.  The subtraction in
\* the retain closure panics in a debug build and wraps in a release build
\* when the solution uses more containers than are left.
OraclePrune ==
    /\ pc = "prune"
    /\ IF \E key \in DOMAIN ways : ways[key] = <<>>
       THEN Verdict(FALSE)
       ELSE IF ~\E key \in DOMAIN ways : Len(ways[key]) = 1
       THEN pc' = "search" /\ UNCHANGED <<ways, pool, liquids, stage, result>>
       ELSE \E liquid_size \in {key \in DOMAIN ways : Len(ways[key]) = 1} :
              LET way == ways[liquid_size][1]
                  liquid_count_using_way ==
                      Cardinality({n \in 1..Len(liquids) : liquids[n] = liquid_size})
                  underflow ==
                      \E key \in DOMAIN ways \ {liquid_size} :
                          \E n \in 1..Len(ways[key]) : RetainUnderflows(ways[key][n], way, pool)
                  shortage ==
                      \E size \in DOMAIN way : way[size] * liquid_count_using_way > pool[size]
              IN  \E panics \in (IF underflow THEN {TRUE, FALSE} ELSE {FALSE}) :
                    IF panics
                    THEN pc' = "fault" /\ UNCHANGED <<ways, pool, liquids, stage, result>>
                    ELSE IF shortage
                    THEN Verdict(FALSE)
                    ELSE /\ ways' = [key \in DOMAIN ways \ {liquid_size} |->
                                        SelectSeq(ways[key],
                                                  LAMBDA solution :
                                                      RetainSolution(solution, way,
                                                                     liquid_count_using_way, pool))]
                         /\ pool' = [size \in DOMAIN pool |->
                                        pool[size] - Get(way, size) * liquid_count_using_way]
                         /\ liquids' = SelectSeq(liquids, LAMBDA x : x # liquid_size)
                         /\ UNCHANGED <<pc, stage, result>>
    /\ UNCHANGED <<containers, last, shuffleStart, history, iter, rhs, tasks, found>>
    /\ UNCHANGED engineVars

\* the backtracking search over the targets left
OracleSearch ==
    /\ pc = "search"
    /\ Verdict(recursive_is_solvable(ways, pool, liquids))
    /\ UNCHANGED <<containers, last, shuffleStart, history, iter, rhs, tasks, found>>
    /\ UNCHANGED engineVars

\* ------------------------------------ recursive_is_solvable(), in parallel
\* The search as the code runs it: par_iter().any() hands every way of the
\* current liquid to a worker, and the workers share the flag 'found'.  A
\* call of recursive_is_solvable is named by the path of way indices that
\* leads to it (the first call by the empty path); the closure run for a way
\* has the name of the call it ends in.  st is "closure" before the closure
\* has run, "entry" when the call is entered, "spawned" while it waits in
\* any(), "done" when it has returned ret, "skipped" for a way any() never
\* ran because another way had returned true.
Task(st, remaining_container_sizes, ret) ==
    [st |-> st, remaining |-> remaining_container_sizes, ret |-> ret]

\* the closures any() has been given by the call at path
Children(path) ==
    {p \in DOMAIN tasks : Len(p) = Len(path) + 1 /\ SubSeq(p, 1, Len(path)) = path}

\* found.load(Ordering::Relaxed): the value stored, or the value false it
\* had before when the store is not yet seen
Loads == IF found THEN {TRUE, FALSE} ELSE {FALSE}

\* mutant of liquid_sizes_is_empty: the last liquid is not looked at
liquid_sizes_is_empty_early(path) == Len(path) + 1 >= Len(liquids)

\* liquid_sizes.is_empty() in the call at path, liquid_sizes being the
\* liquids behind the Len(path) ones the path has matched
liquid_sizes_is_empty(path) == Len(path) = Len(liquids)

SearchFrame == UNCHANGED <<containers, last, shuffleStart, history, iter, ways, pool,
                           liquids, rhs>> /\ UNCHANGED engineVars

\* is_solvable() makes the flag and calls recursive_is_solvable
SearchCall ==
    /\ pc = "search"
    /\ pc' = "searching"
    /\ tasks' = [p \in {<<>>} |-> Task("entry", pool, FALSE)]
    /\ found' = FALSE
    /\ SearchFrame
    /\ UNCHANGED <<stage, result>>

\* a call runs up to par_iter().any(): the flag is read, a call without
\* liquids left stores the flag, any other hands its ways to the workers
CallEnter(path) ==
    /\ pc = "searching"
    /\ tasks[path].st = "entry"
    /\ \E seen \in Loads :
          IF seen
          THEN /\ tasks' = [tasks EXCEPT ![path] = Task("done", @.remaining, TRUE)]
               /\ UNCHANGED found
          ELSE IF liquid_sizes_is_empty(path)
          THEN /\ found' = TRUE
               /\ tasks' = [tasks EXCEPT ![path] = Task("done", @.remaining, TRUE)]
          ELSE LET current_liquid == liquids[Len(path) + 1]
               IN  IF current_liquid \notin DOMAIN ways
                   THEN /\ tasks' = [tasks EXCEPT ![path] = Task("done", @.remaining, FALSE)]
                        /\ UNCHANGED found
                   ELSE /\ tasks' =
                             [p \in DOMAIN tasks
                                    \cup {Append(path, n) : n \in 1..Len(ways[current_liquid])} |->
                                 IF p = path THEN Task("spawned", tasks[path].remaining, FALSE)
                                 ELSE IF p \in DOMAIN tasks THEN tasks[p]
                                 ELSE Task("closure", tasks[path].remaining, FALSE)]
                        /\ UNCHANGED found
    /\ SearchFrame
    /\ UNCHANGED <<pc, stage, result>>

\* the closure of a way runs up to its call of recursive_is_solvable: the
\* flag is read, the containers of the way are taken from the remaining ones
\* mutant of Closure: the way is taken from the containers left without the
\* test that they are enough
Closure_unchecked(path) ==
    /\ pc = "searching"
    /\ tasks[path].st = "closure"
    /\ LET way == ways[liquids[Len(path)]][path[Len(path)]]
           remaining == tasks[path].remaining
       IN  \E seen \in Loads :
             IF seen
             THEN tasks' = [tasks EXCEPT ![path] = Task("done", remaining, TRUE)]
             ELSE tasks' = [tasks EXCEPT ![path] =
                               Task("entry",
                                    [size \in DOMAIN remaining \cup DOMAIN way |->
                                        Get(remaining, size) - Get(way, size)],
                                    FALSE)]
    /\ UNCHANGED found
    /\ SearchFrame
    /\ UNCHANGED <<pc, stage, result>>

Closure(path) ==
    /\ pc = "searching"
    /\ tasks[path].st = "closure"
    /\ LET way == ways[liquids[Len(path)]][path[Len(path)]]
           remaining == tasks[path].remaining
       IN  \E seen \in Loads :
             IF seen
             THEN tasks' = [tasks EXCEPT ![path] = Task("done", remaining, TRUE)]
             ELSE IF \E size \in DOMAIN way : Get(remaining, size) < way[size]
             THEN tasks' = [tasks EXCEPT ![path] = Task("done", remaining, FALSE)]
             ELSE tasks' = [tasks EXCEPT ![path] =
                               Task("entry",
                                    [size \in DOMAIN remaining \cup DOMAIN way |->
                                        Get(remaining, size) - Get(way, size)],
                                    FALSE)]
    /\ UNCHANGED found
    /\ SearchFrame
    /\ UNCHANGED <<pc, stage, result>>

\* any() does not run a way once another way has returned true
Skip(path) ==
    /\ pc = "searching"
    /\ tasks[path].st = "closure"
    /\ \E p \in Children(SubSeq(path, 1, Len(path) - 1)) :
          tasks[p].st = "done" /\ tasks[p].ret
    /\ tasks' = [tasks EXCEPT ![path] = Task("skipped", @.remaining, FALSE)]
    /\ UNCHANGED found
    /\ SearchFrame
    /\ UNCHANGED <<pc, stage, result>>

\* mutant of Join: any() waits for every way to have been run
Join_all_run(path) ==
    /\ pc = "searching"
    /\ tasks[path].st = "spawned"
    /\ \A p \in Children(path) : tasks[p].st = "done"
    /\ tasks' = [p \in DOMAIN tasks \ Children(path) |->
                    IF p = path
                    THEN Task("done", tasks[path].remaining,
                              \E q \in Children(path) : tasks[q].ret)
                    ELSE tasks[p]]
    /\ UNCHANGED found
    /\ SearchFrame
    /\ UNCHANGED <<pc, stage, result>>

\* any() returns when every way has been run or skipped: true when a way
\* returned true
Join(path) ==
    /\ pc = "searching"
    /\ tasks[path].st = "spawned"
    /\ \A p \in Children(path) : tasks[p].st \in {"done", "skipped"}
    /\ tasks' = [p \in DOMAIN tasks \ Children(path) |->
                    IF p = path
                    THEN Task("done", tasks[path].remaining,
                              \E q \in Children(path) : tasks[q].st = "done" /\ tasks[q].ret)
                    ELSE tasks[p]]
    /\ UNCHANGED found
    /\ SearchFrame
    /\ UNCHANGED <<pc, stage, result>>

\* the first call has returned: its value is the verdict of is_solvable()
SearchReturn ==
    /\ pc = "searching"
    /\ tasks[<<>>].st = "done"
    /\ Verdict(tasks[<<>>].ret)
    /\ UNCHANGED <<tasks, found>>
    /\ UNCHANGED <<containers, last, shuffleStart, history, iter, rhs>>
    /\ UNCHANGED engineVars

\* ------------------------------------------- specification: shuffle and verdict
\* a puzzle state parsed from NGame lines of text
InitGame ==
    /\ containers \in {GameState_new_from_repr(lines) : lines \in [1..NGame -> Lines]}
    /\ last = NoOp
    /\ pc = "idle"
    /\ ShuffleIdle
    /\ OracleIdle
    /\ rhs = <<>>
    /\ EngineIdle

NextGame ==
    \/ ShuffleStart
    \/ ShuffleStep
    \/ ShuffleEnd
    \/ OracleFast
    \/ OracleSetup
    \/ OraclePrune
    \/ OracleSearch

SpecGame == InitGame /\ [][NextGame]_vars

\* ---------------------------------- specification: shuffle of a solved state
NSolved == 4        \* lines of text a solved puzzle state is parsed from

\* the lines of a solved state: all dots or all the same letter
SolvedLines == {l \in Lines : \A i, j \in 1..Len(l) : l[i] = l[j]}

InitSolved ==
    /\ containers \in {GameState_new_from_repr(lines) : lines \in [1..NSolved -> SolvedLines]}
    /\ last = NoOp
    /\ pc = "idle"
    /\ ShuffleIdle
    /\ OracleIdle
    /\ rhs = <<>>
    /\ EngineIdle

SpecSolved == InitSolved /\ [][NextGame]_vars

\* ------------------------------------------- specification: the listed moves
\* apply_random_move: nothing is listed and false is returned, or any of the
\* listed moves is applied
ApplyRandomMove ==
    /\ pc = "idle"
    /\ \E possible_moves \in {get_possible_moves(containers)} :
           IF possible_moves = <<>>
           THEN /\ last' = Op("apply_random_move", 0, 0, 0, FALSE)
                /\ UNCHANGED <<containers, pc>>
           ELSE \E n \in 1..Len(possible_moves) :
                   LET selected_move == possible_moves[n]
                   IN  /\ containers' = apply_move(containers, selected_move)
                       /\ last' = Op("apply_random_move", selected_move.from_container,
                                     selected_move.to_container, selected_move.amount, TRUE)
                       /\ pc' = IF MoveFaults(containers, selected_move)
                                THEN "fault" ELSE pc
    /\ UNCHANGED <<shuffleStart, history, iter, ways, pool, liquids, stage, result, rhs, tasks, found>>
    /\ UNCHANGED engineVars

\* a move that get_possible_reverse_moves(limit_size) lists is applied; with
\* limit_size set this is apply_random_reverse_move.  The flag is kept in
\* stage.
ApplyListedReverseMove(limit_size) ==
    /\ pc = "idle"
    /\ \E possible_moves \in {get_possible_reverse_moves(containers, limit_size)} :
           IF possible_moves = {}
           THEN /\ last' = Op("apply_random_reverse_move", 0, 0, 0, FALSE)
                /\ UNCHANGED <<containers, pc>>
           ELSE \E selected_move \in possible_moves :
                   /\ containers' = apply_reverse_move(containers, selected_move)
                   /\ last' = Op("apply_random_reverse_move", selected_move.from_container,
                                 selected_move.to_container, selected_move.amount, TRUE)
                   /\ pc' = IF MoveFaults(containers, selected_move)
                            THEN "fault" ELSE pc
    /\ stage' = IF limit_size THEN "limit_size" ELSE "none"
    /\ UNCHANGED <<shuffleStart, history, iter, ways, pool, liquids, result, rhs, tasks, found>>
    /\ UNCHANGED engineVars

NextMoves ==
    \/ ApplyRandomMove
    \/ \E limit_size \in BOOLEAN : ApplyListedReverseMove(limit_size)

SpecMoves == InitGame /\ [][NextMoves]_vars

\* ------------------------------------------------ specification: the oracle
RECURSIVE CutInto(_, _)
\* the slots dealt to containers of the given capacities, in order
CutInto(slots, caps) ==
    IF caps = <<>> THEN <<>>
    ELSE <<[packets |-> SubSeq(slots, 1, Head(caps)), capacity |-> Head(caps)]>>
         \o CutInto(SubSeq(slots, Head(caps) + 1, Len(slots)), Tail(caps))

RECURSIVE Repeat(_, _)
Repeat(x, n) == IF n = 0 THEN <<>> ELSE <<x>> \o Repeat(x, n - 1)

RECURSIVE PacketsOf(_, _)
\* counts[id + 1] packets of each color id, colors in order
PacketsOf(counts, id) ==
    IF id >= Len(counts) THEN <<>>
    ELSE Repeat(Fluid(id), counts[id + 1]) \o PacketsOf(counts, id + 1)

RECURSIVE CountVectors(_, _)
\* the sequences of n packet counts that add up to at most total
CountVectors(n, total) ==
    IF n = 0 THEN {<<>>}
    ELSE UNION {{<<first>> \o rest : rest \in CountVectors(n - 1, total - first)} :
                    first \in 0..total}

\* the states given to the oracle: containers of any capacities up to MaxCap
\* (zero included), holding any number of packets of each color that fits,
\* the containers filled one after the other, color by color
OracleState(caps, counts) ==
    CutInto(PacketsOf(counts, 0) \o EmptySlots(SumSeq(caps) - SumSeq(counts)), caps)

InitOracle ==
    /\ \E caps \in SeqsUpTo(0..MaxCap, MaxOracleContainers) :
         \E counts \in CountVectors(NOracleColors, SumSeq(caps)) :
            containers = OracleState(caps, counts)
    /\ last = NoOp
    /\ pc = "oracle"
    /\ ShuffleIdle
    /\ OracleIdle
    /\ rhs = <<>>
    /\ EngineIdle

NextOracle ==
    \/ OracleFast
    \/ OracleSetup
    \/ OraclePrune
    \/ OracleSearch

SpecOracle == InitOracle /\ [][NextOracle]_vars

\* ----------------------------------- specification: the search in parallel
NextSearch ==
    \/ OracleFast
    \/ OracleSetup
    \/ OraclePrune
    \/ SearchCall
    \/ \E path \in DOMAIN tasks : CallEnter(path)
    \/ \E path \in DOMAIN tasks : Closure(path)
    \/ \E path \in DOMAIN tasks : Skip(path)
    \/ \E path \in DOMAIN tasks : Join(path)
    \/ SearchReturn

NSearch == 4            \* containers of a state given to the parallel search
NSearchColors == 3      \* colors of a state given to the parallel search

\* the capacities of the containers, smallest first: the search reads the
\* containers through their size map only
SearchCaps ==
    {caps \in SeqsUpTo(1..MaxCap, NSearch) :
        \A i \in 1..(Len(caps) - 1) : caps[i] <= caps[i + 1]}

InitSearch ==
    /\ \E caps \in SearchCaps :
         \E counts \in CountVectors(NSearchColors, SumSeq(caps)) :
            containers = OracleState(caps, counts)
    /\ last = NoOp
    /\ pc = "oracle"
    /\ ShuffleIdle
    /\ OracleIdle
    /\ rhs = <<>>
    /\ EngineIdle

SpecSearch == InitSearch /\ [][NextSearch]_vars

\* -------------------------- specification: the loop and the search, fair
\* is_solvable() where its loop over the forced choices begins: the fast
\* stages were inconclusive, the size map, the target sizes and the ways to
\* reach them are built
InitLoop ==
    /\ \E caps \in SearchCaps :
         \E counts \in CountVectors(NSearchColors, SumSeq(caps)) :
            /\ containers = OracleState(caps, counts)
            /\ fast_is_maybe_solvable(OracleState(caps, counts)).verdict = "none"
            /\ pool = ContainerSizeMap(OracleState(caps, counts))
            /\ liquids = LiquidSizeVec(OracleState(caps, counts))
            /\ ways = InitialWays(OracleState(caps, counts))
    /\ last = NoOp
    /\ pc = "prune"
    /\ ShuffleIdle
    /\ stage = "none" /\ result = "none"
    /\ tasks = <<>> /\ found = FALSE
    /\ rhs = <<>>
    /\ EngineIdle

NextLoop ==
    \/ OraclePrune
    \/ SearchCall
    \/ \E path \in DOMAIN tasks : CallEnter(path)
    \/ \E path \in DOMAIN tasks : Closure(path)
    \/ \E path \in DOMAIN tasks : Skip(path)
    \/ \E path \in DOMAIN tasks : Join(path)
    \/ SearchReturn

\* the thread that called is_solvable() and the workers of the thread pool
\* keep working: a step that can be taken is taken in the end
SpecLoopFair == InitLoop /\ [][NextLoop]_vars /\ WF_vars(NextLoop)

\* ------------------------------------------ specification: the text codec
MaxLineLen == 4         \* characters of a line of text
NTextLines == 2         \* lines of a text

\* the characters of the texts: empty slot, separator, two letters
TextAlphabet == {".", ",", "A", "B"}
TextLines == SeqsUpTo(TextAlphabet, MaxLineLen)

\* a state is parsed from a text
InitText ==
    /\ \E text \in SeqsUpTo(TextLines, NTextLines) :
          /\ containers = GameState_new_from_repr(text)
          /\ last = [NoOp EXCEPT !.op = "new_from_repr", !.arg = text]
    /\ pc = "parsed"
    /\ ShuffleIdle
    /\ OracleIdle
    /\ rhs = <<>>
    /\ EngineIdle

\* the state is written out as text
Serialize ==
    /\ pc = "parsed"
    /\ pc' = "serialized"
    /\ last' = Op("get_text_representation", 0, 0, 0,
                  GameState_get_text_representation(containers))
    /\ UNCHANGED <<containers, shuffleStart, history, iter, ways, pool, liquids,
                   stage, result, rhs, tasks, found>>
    /\ UNCHANGED engineVars

\* the text written is parsed again, into rhs
Reparse ==
    /\ pc = "serialized"
    /\ pc' = "reparsed"
    /\ rhs' = GameState_new_from_repr(last.ret)
    /\ last' = Op("new_from_repr", 0, 0, last.ret, TRUE)
    /\ UNCHANGED <<containers, shuffleStart, history, iter, ways, pool, liquids,
                   stage, result, tasks, found>>
    /\ UNCHANGED engineVars

NextText ==
    \/ Serialize
    \/ Reparse

SpecText == InitText /\ [][NextText]_vars

\* ------------------------------------------ specification: the color labels
MaxColorId == 1500      \* largest color id whose label is written and read

\* a container of one slot holds a packet of some color
InitLabel ==
    /\ \E color_id \in 0..MaxColorId :
          containers = <<[packets |-> <<Fluid(color_id)>>, capacity |-> 1]>>
    /\ last = NoOp
    /\ pc = "label"
    /\ ShuffleIdle
    /\ OracleIdle
    /\ rhs = <<>>
    /\ EngineIdle

\* get_letter_representation of the packet
GetLetterRepresentation ==
    /\ pc = "label"
    /\ pc' = "lettered"
    /\ last' = Op("get_letter_representation", 1, 0, 0,
                  get_letter_representation(containers[1].packets[1]))
    /\ UNCHANGED <<containers, shuffleStart, history, iter, ways, pool, liquids,
                   stage, result, rhs, tasks, found>>
    /\ UNCHANGED engineVars

\* FluidPacket::new_from_repr on the label as one token: the packet goes to rhs
ParseToken ==
    /\ pc = "lettered"
    /\ pc' = "token_parsed"
    /\ rhs' = <<FluidPacket_new_from_token(last.ret)>>
    /\ UNCHANGED <<containers, last, shuffleStart, history, iter, ways, pool, liquids,
                   stage, result, tasks, found>>
    /\ UNCHANGED engineVars

\* GameState::new_from_repr on the line made of the label and a comma: the
\* state goes to rhs
ParseLabelLine ==
    /\ pc = "lettered"
    /\ pc' = "line_parsed"
    /\ rhs' = GameState_new_from_repr(<<last.ret \o <<",">>>>)
    /\ UNCHANGED <<containers, last, shuffleStart, history, iter, ways, pool, liquids,
                   stage, result, tasks, found>>
    /\ UNCHANGED engineVars

NextLabel ==
    \/ GetLetterRepresentation
    \/ ParseToken
    \/ ParseLabelLine

SpecLabel == InitLabel /\ [][NextLabel]_vars

\* ------------------------------------ specification: the verdict under play
PlayCap == 2    \* characters of a line the played states are parsed from

\* a state whose verdict the backtracking search gives: three colors of two
\* packets each, two containers of two slots and four of one
SearchText == << <<"A">>, <<"A">>, <<"B", "B">>, <<"C", "C">>, <<".">>, <<".">> >>

\* a puzzle state parsed from NGame short lines of text, or from SearchText,
\* on which is_solvable() is called
InitPlay ==
    /\ containers \in {GameState_new_from_repr(lines) :
                          lines \in [1..NGame -> SeqsUpTo(Alphabet, PlayCap)] \cup {SearchText}}
    /\ last = NoOp
    /\ pc = "oracle"
    /\ ShuffleIdle
    /\ OracleIdle
    /\ rhs = <<>>
    /\ EngineIdle

\* What last holds from the first move on: the call of is_solvable() that
\* preceded the moves, with the state it was given, the stage that gave the
\* verdict and the verdict.
BeforePlay ==
    IF last.op = "none" THEN Op("is_solvable", 0, 0, stage, result) ELSE last

\* apply_move with valid distinct indices, once a verdict has been returned
PlayMove(from, to, amount) ==
    /\ pc \in {"done", "played"}
    /\ from # to
    /\ containers' = apply_move(containers, MoveAction(from, to, amount))
    /\ last' = BeforePlay
    /\ pc' = "played"
    /\ UNCHANGED <<shuffleStart, history, iter, ways, pool, liquids, stage, result, rhs,
                   tasks, found>>
    /\ UNCHANGED engineVars

\* apply_reverse_move with valid distinct indices
PlayReverseMove(from, to, amount) ==
    /\ pc \in {"done", "played"}
    /\ from # to
    /\ containers' = apply_reverse_move(containers, MoveAction(from, to, amount))
    /\ last' = BeforePlay
    /\ pc' = "played"
    /\ UNCHANGED <<shuffleStart, history, iter, ways, pool, liquids, stage, result, rhs,
                   tasks, found>>
    /\ UNCHANGED engineVars

\* is_solvable() is called again, on the state the moves have left
IsSolvableAgain ==
    /\ pc = "played"
    /\ pc' = "oracle"
    /\ ways' = <<>>
    /\ pool' = <<>>
    /\ liquids' = <<>>
    /\ stage' = "none"
    /\ result' = "none"
    /\ UNCHANGED <<containers, last, shuffleStart, history, iter, rhs, tasks, found>>
    /\ UNCHANGED engineVars

NextPlay ==
    \/ OracleFast
    \/ OracleSetup
    \/ OraclePrune
    \/ OracleSearch
    \/ \E from, to \in 1..Len(containers), amount \in Amounts : PlayMove(from, to, amount)
    \/ \E from, to \in 1..Len(containers), amount \in Amounts :
          PlayReverseMove(from, to, amount)
    \/ IsSolvableAgain

SpecPlay == InitPlay /\ [][NextPlay]_vars

\* ------------------------------------- specification: moves between containers
\* a puzzle state parsed from NGame short lines of text
InitFrame ==
    /\ containers \in {GameState_new_from_repr(lines) :
                          lines \in [1..NGame -> SeqsUpTo(Alphabet, PlayCap)]}
    /\ last = NoOp
    /\ pc = "idle"
    /\ ShuffleIdle
    /\ OracleIdle
    /\ rhs = <<>>
    /\ EngineIdle

\* apply_move and apply_reverse_move with indices of containers that differ
NextFrame ==
    \/ \E from, to \in 1..Len(containers), amount \in Amounts :
          from # to /\ ApplyMove(from, to, amount)
    \/ \E from, to \in 1..Len(containers), amount \in Amounts :
          from # to /\ ApplyReverseMove(from, to, amount)

SpecFrame == InitFrame /\ [][NextFrame]_vars

\* ------------------------------------- specification: texts of any content
MalformedLineLen == 3   \* characters of a line of such a text

\* the characters: empty slot, separator, a letter of each case, a character
\* that is none of these, white space
AnyAlphabet == {".", ",", "A", "b", "?", " "}
AnyLines == SeqsUpTo(AnyAlphabet, MalformedLineLen)

\* a text is at hand
InitAnyText ==
    /\ \E text \in SeqsUpTo(AnyLines, NTextLines) :
          last = [NoOp EXCEPT !.op = "text", !.arg = text]
    /\ containers = <<>>
    /\ pc = "text"
    /\ ShuffleIdle
    /\ OracleIdle
    /\ rhs = <<>>
    /\ EngineIdle

\* GameState::new_from_repr on the text; nothing in it can fail
ParseText ==
    /\ pc = "text"
    /\ pc' = "parsed"
    /\ containers' = GameState_new_from_repr(last.arg)
    /\ last' = [last EXCEPT !.op = "new_from_repr", !.ret = TRUE]
    /\ UNCHANGED <<shuffleStart, history, iter, ways, pool, liquids, stage, result, rhs,
                   tasks, found>>
    /\ UNCHANGED engineVars

NextAnyText ==
    \/ ParseText
    \/ Serialize

SpecAnyText == InitAnyText /\ [][NextAnyText]_vars

\* ---------------------------------------------- specification: the game engine
MaxActions == 5             \* actions handle_game_action is given in a behaviour
NEngineColors == 2          \* the colors AddColor is asked for
NewContainerCapacity == 5   \* FluidContainer::new(5) of GameEngine::new and add_container

RECURSIVE StrLines(_, _)
\* str::lines: the pieces between the line feeds, line being the piece that
\* is being read; a line feed at the end opens no further line
StrLines(repr, line) ==
    IF repr = <<>> THEN (IF line = <<>> THEN <<>> ELSE <<line>>)
    ELSE IF Head(repr) = "\n" THEN <<line>> \o StrLines(Tail(repr), <<>>)
    ELSE StrLines(Tail(repr), Append(line, Head(repr)))

\* gameplay.rs GameState::new_from_repr: one container per line, none skipped
Gameplay_new_from_repr(repr) ==
    [i \in 1..Len(StrLines(repr, <<>>)) |->
        FluidContainer_new_from_repr(StrLines(repr, <<>>)[i])]

\* gameplay.rs GameState::get_text_representation: the containers' texts with
\* a line feed between them
Gameplay_get_text_representation(cs) ==
    JoinWith([i \in 1..Len(cs) |-> FluidContainer_get_text_representation(cs[i])], <<"\n">>)

\* the texts the clipboard may hold when the program starts: none, "A.\n.",
\* "AB\nB."
ClipboardTexts ==
    {<<>>, <<"A", ".", "\n", ".">>, <<"A", "B", "\n", "B", ".">>}

\* GameEngine::new(undo_enable)
InitEngine ==
    /\ containers = <<FluidContainer_new(NewContainerCapacity),
                      FluidContainer_new(NewContainerCapacity)>>
    /\ starting_state = containers
    /\ selected = Selection_None
    /\ undo_enable \in BOOLEAN
    /\ undo_stack = <<>>
    /\ redo_stack = <<>>
    /\ editor_mode = TRUE
    /\ clipboard \in ClipboardTexts
    /\ handled = 0
    /\ last = NoOp
    /\ pc = "engine"
    /\ ShuffleIdle
    /\ OracleIdle
    /\ rhs = <<>>

\* handle_game_action is given an action; last keeps the action and the
\* puzzle state it found, last.ret whether it got past the editor guard
Handles(name, from, to, arg, ret) ==
    /\ pc = "engine"
    /\ handled < MaxActions
    /\ handled' = handled + 1
    /\ last' = Op(name, from, to, arg, ret)
    /\ UNCHANGED <<pc, shuffleStart, history, iter, ways, pool, liquids, stage, result,
                   rhs, tasks, found, undo_enable>>

\* the guard at the head of handle_game_action: with the editor off an
\* editing action returns at once
Ignored(name, from, to, arg) ==
    /\ Handles(name, from, to, arg, FALSE)
    /\ UNCHANGED <<containers, starting_state, selected, undo_stack, redo_stack,
                   editor_mode, clipboard>>

\* mutant of PushUndoState: the redo stack is kept
PushUndoState_keeps_redo ==
    IF undo_enable
    THEN undo_stack' = Append(undo_stack, containers) /\ UNCHANGED redo_stack
    ELSE UNCHANGED <<undo_stack, redo_stack>>

\* push_undo_state
PushUndoState ==
    IF undo_enable
    THEN undo_stack' = Append(undo_stack, containers) /\ redo_stack' = <<>>
    ELSE UNCHANGED <<undo_stack, redo_stack>>

HandleSelectColor(index) ==
    /\ Handles("SelectColor", 0, 0, index, TRUE)
    /\ selected' = Selection_Color(index)
    /\ UNCHANGED <<containers, starting_state, undo_stack, redo_stack, editor_mode, clipboard>>

HandleSelectContainer(index) ==
    /\ Handles("SelectContainer", 0, 0, index, TRUE)
    /\ selected' = Selection_Container(index)
    /\ UNCHANGED <<containers, starting_state, undo_stack, redo_stack, editor_mode, clipboard>>

HandleDeselect ==
    /\ Handles("Deselect", 0, 0, 0, TRUE)
    /\ selected' = Selection_None
    /\ UNCHANGED <<containers, starting_state, undo_stack, redo_stack, editor_mode, clipboard>>

\* mutant of HandlePourInto: the snapshot is pushed before the pour is
\* looked at
HandlePourInto_snapshot_first(from, to) ==
    /\ Handles("PourInto", from, to, 0, TRUE)
    /\ PushUndoState
    /\ IF ~could_pour_into(containers[from], containers[to])
       THEN /\ selected' = Selection_Container(to)
            /\ UNCHANGED containers
       ELSE /\ containers' = apply_move(containers, MoveAction(from, to, 0))
            /\ UNCHANGED selected
    /\ UNCHANGED <<starting_state, editor_mode, clipboard>>

\* PourInto(from, to): a pour that cannot take place selects the destination
HandlePourInto(from, to) ==
    /\ Handles("PourInto", from, to, 0, TRUE)
    /\ IF ~could_pour_into(containers[from], containers[to])
       THEN /\ selected' = Selection_Container(to)
            /\ UNCHANGED <<containers, undo_stack, redo_stack>>
       ELSE /\ PushUndoState
            /\ containers' = apply_move(containers, MoveAction(from, to, 0))
            /\ UNCHANGED selected
    /\ UNCHANGED <<starting_state, editor_mode, clipboard>>

\* mutant of HandleUndo: the state left is not kept for redo
HandleUndo_forgets ==
    /\ Handles("Undo", 0, 0, [op |-> last.op, before |-> last.before], TRUE)
    /\ IF undo_enable /\ undo_stack # <<>>
       THEN /\ containers' = undo_stack[Len(undo_stack)]
            /\ undo_stack' = SubSeq(undo_stack, 1, Len(undo_stack) - 1)
            /\ selected' = Selection_None
            /\ UNCHANGED redo_stack
       ELSE UNCHANGED <<containers, undo_stack, redo_stack, selected>>
    /\ UNCHANGED <<starting_state, editor_mode, clipboard>>

\* undo; last.arg keeps the action handled before it and the puzzle state
\* that action found
HandleUndo ==
    /\ Handles("Undo", 0, 0, [op |-> last.op, before |-> last.before], TRUE)
    /\ IF undo_enable /\ undo_stack # <<>>
       THEN /\ redo_stack' = Append(redo_stack, containers)
            /\ containers' = undo_stack[Len(undo_stack)]
            /\ undo_stack' = SubSeq(undo_stack, 1, Len(undo_stack) - 1)
            /\ selected' = Selection_None
       ELSE UNCHANGED <<containers, undo_stack, redo_stack, selected>>
    /\ UNCHANGED <<starting_state, editor_mode, clipboard>>

\* redo
HandleRedo ==
    /\ Handles("Redo", 0, 0, 0, TRUE)
    /\ IF undo_enable /\ redo_stack # <<>>
       THEN /\ undo_stack' = Append(undo_stack, containers)
            /\ containers' = redo_stack[Len(redo_stack)]
            /\ redo_stack' = SubSeq(redo_stack, 1, Len(redo_stack) - 1)
            /\ selected' = Selection_None
       ELSE UNCHANGED <<containers, undo_stack, redo_stack, selected>>
    /\ UNCHANGED <<starting_state, editor_mode, clipboard>>

\* Reset: load_state(starting_state)
HandleReset ==
    /\ Handles("Reset", 0, 0, 0, TRUE)
    /\ PushUndoState
    /\ containers' = starting_state
    /\ selected' = Selection_None
    /\ UNCHANGED <<starting_state, editor_mode, clipboard>>

HandleToggleEditor ==
    /\ Handles("ToggleEditor", 0, 0, 0, TRUE)
    /\ editor_mode' = ~editor_mode
    /\ UNCHANGED <<containers, starting_state, selected, undo_stack, redo_stack, clipboard>>

HandleCopyState ==
    /\ Handles("CopyState", 0, 0, 0, TRUE)
    /\ clipboard' = Gameplay_get_text_representation(containers)
    /\ UNCHANGED <<containers, starting_state, selected, undo_stack, redo_stack, editor_mode>>

\* mutant of HandleGatedAction: the guard is left out
HandleGatedAction_unguarded(name) == FALSE

\* whether the guard at the head of handle_game_action returns for the action
HandleGatedAction(name) ==
    /\ name \in {"PasteState", "AddColor", "RemoveColor", "AddContainer", "RemoveContainer",
                 "ExpandContainer", "ShrinkContainer", "ReversePour"}
    /\ ~editor_mode

\* PasteState: a snapshot is pushed only when the undo stack holds one
HandlePasteState ==
    IF HandleGatedAction("PasteState") THEN Ignored("PasteState", 0, 0, 0)
    ELSE /\ Handles("PasteState", 0, 0, 0, TRUE)
         /\ IF undo_stack # <<>> THEN PushUndoState ELSE UNCHANGED <<undo_stack, redo_stack>>
         /\ containers' = Gameplay_new_from_repr(clipboard)
         /\ selected' = Selection_None
         /\ starting_state' = containers'
         /\ UNCHANGED <<editor_mode, clipboard>>

HandleAddColor(container_id, color_id) ==
    IF HandleGatedAction("AddColor") THEN Ignored("AddColor", 0, container_id, color_id)
    ELSE /\ Handles("AddColor", 0, container_id, color_id, TRUE)
         /\ PushUndoState
         /\ containers' = [containers EXCEPT
                              ![container_id] = add_fluid(@, Fluid(color_id)).c]
         /\ UNCHANGED <<starting_state, selected, editor_mode, clipboard>>

HandleRemoveColor(container_id) ==
    IF HandleGatedAction("RemoveColor") THEN Ignored("RemoveColor", 0, container_id, 0)
    ELSE /\ Handles("RemoveColor", 0, container_id, 0, TRUE)
         /\ PushUndoState
         /\ containers' = [containers EXCEPT ![container_id] = pop_fluid(@).c]
         /\ UNCHANGED <<starting_state, selected, editor_mode, clipboard>>

\* add_container: after the selected container and of its capacity, or at
\* the end and of the capacity of the last one
HandleAddContainer ==
    IF HandleGatedAction("AddContainer") THEN Ignored("AddContainer", 0, 0, 0)
    ELSE /\ Handles("AddContainer", 0, 0, 0, TRUE)
         /\ PushUndoState
         /\ IF selected.kind = "Container"
            THEN LET index == selected.index
                     capacity == get_capacity(containers[index])
                 IN  /\ containers' = SubSeq(containers, 1, index)
                                         \o <<FluidContainer_new(capacity)>>
                                         \o SubSeq(containers, index + 1, Len(containers))
                     /\ selected' = Selection_Container(index + 1)
            ELSE LET capacity == IF containers = <<>> THEN NewContainerCapacity
                                 ELSE get_capacity(containers[Len(containers)])
                 IN  /\ containers' = Append(containers, FluidContainer_new(capacity))
                     /\ selected' = Selection_Container(Len(containers) + 1)
         /\ UNCHANGED <<starting_state, editor_mode, clipboard>>

\* remove_container: the selected container, or the last one
HandleRemoveContainer ==
    IF HandleGatedAction("RemoveContainer") THEN Ignored("RemoveContainer", 0, 0, 0)
    ELSE /\ Handles("RemoveContainer", 0, 0, 0, TRUE)
         /\ PushUndoState
         /\ IF selected.kind = "Container"
            THEN LET index == selected.index
                 IN  IF index <= Len(containers)
                     THEN /\ containers' = SubSeq(containers, 1, index - 1)
                                              \o SubSeq(containers, index + 1, Len(containers))
                          /\ selected' = IF index >= 2 THEN Selection_Container(index - 1)
                                         ELSE Selection_None
                     ELSE UNCHANGED <<containers, selected>>
            ELSE /\ containers' = SubSeq(containers, 1, Len(containers) - 1)
                 /\ UNCHANGED selected
         /\ UNCHANGED <<starting_state, editor_mode, clipboard>>

\* ExpandContainer and ShrinkContainer: change_capacity(delta) on the selected
\* container
HandleChangeCapacity(name, delta) ==
    IF HandleGatedAction(name) THEN Ignored(name, 0, 0, delta)
    ELSE /\ Handles(name, 0, 0, delta, TRUE)
         /\ PushUndoState
         /\ IF selected.kind = "Container"
            THEN containers' = [containers EXCEPT ![selected.index] = change_capacity(@, delta)]
            ELSE UNCHANGED containers
         /\ UNCHANGED <<starting_state, selected, editor_mode, clipboard>>

HandleExpandContainer == HandleChangeCapacity("ExpandContainer", 1)

HandleShrinkContainer == HandleChangeCapacity("ShrinkContainer", -1)

\* ReversePour(from, to, amount): a reverse pour that cannot take place
\* selects the destination
HandleReversePour(from, to, amount) ==
    IF HandleGatedAction("ReversePour") THEN Ignored("ReversePour", from, to, amount)
    ELSE /\ Handles("ReversePour", from, to, amount, TRUE)
         /\ IF ~could_reverse_pour_into(containers[from], containers[to])
            THEN /\ selected' = Selection_Container(to)
                 /\ UNCHANGED <<containers, undo_stack, redo_stack>>
            ELSE /\ PushUndoState
                 /\ containers' = apply_reverse_move(containers, MoveAction(from, to, amount))
                 /\ UNCHANGED selected
         /\ UNCHANGED <<starting_state, editor_mode, clipboard>>

\* The actions the program is given name containers that exist and, for a
\* pour, differ: the hit test gives indices of containers drawn, and
\* handle_hit_item turns a click on the selected container into Deselect.
\* The right click asks for a reverse pour of 1.
NextEngine ==
    \/ \E index \in 0..1 : HandleSelectColor(index)
    \/ \E index \in 1..Len(containers) : HandleSelectContainer(index)
    \/ HandleDeselect
    \/ \E from, to \in 1..Len(containers) : from # to /\ HandlePourInto(from, to)
    \/ HandleUndo
    \/ HandleRedo
    \/ HandleReset
    \/ HandleToggleEditor
    \/ HandleCopyState
    \/ HandlePasteState
    \/ \E container_id \in 1..Len(containers), color_id \in 0..(NEngineColors - 1) :
          HandleAddColor(container_id, color_id)
    \/ \E container_id \in 1..Len(containers) : HandleRemoveColor(container_id)
    \/ HandleAddContainer
    \/ HandleRemoveContainer
    \/ HandleExpandContainer
    \/ HandleShrinkContainer
    \/ \E from, to \in 1..Len(containers) : from # to /\ HandleReversePour(from, to, 1)

SpecEngine == InitEngine /\ [][NextEngine]_vars

\* ==================================================================== claims
\* number of filled packets of a container, counted slot by slot
Filled(c) == Cardinality({i \in 1..Len(c.packets) : c.packets[i] # Empty})

\* packets of color id in a puzzle state
ColorCount(cs, id) ==
    SumSeq([i \in 1..Len(cs) |->
                Cardinality({j \in 1..Len(cs[i].packets) : cs[i].packets[j] = id})])

\* the source after its k top packets have left
SourceAfter(src, k) ==
    [src EXCEPT !.packets = [i \in 1..Len(src.packets) |->
                                IF i > Filled(src) - k THEN Empty ELSE src.packets[i]]]

\* the destination after the k top packets of src have been put on top of it,
\* in the order they left src
DestAfter(dst, src, k) ==
    [dst EXCEPT !.packets = [i \in 1..Len(dst.packets) |->
                                IF i > Filled(dst) /\ i <= Filled(dst) + k
                                THEN src.packets[Filled(src) - (i - Filled(dst)) + 1]
                                ELSE dst.packets[i]]]

IsPour == last.op \in {"pour_into", "reverse_pour_into"}
IsMove == last.op \in {"apply_move", "apply_reverse_move", "shuffle"}

\* C1: a forward or reverse pour between two containers moves some number k of
\* packets from the top of the source onto the destination, each with its
\* color, so the filled packets of the pair are conserved; and apply_move,
\* apply_reverse_move and every step of shuffle leave the per-color packet
\* counts and all capacities as they were (for shuffle also with respect to
\* the state it started from).
C1_PourConservation ==
    /\ IsPour =>
         LET src == last.before[last.from]
             dst == last.before[last.to]
             k == Filled(src) - Filled(containers[last.from])
         IN  /\ k >= 0
             /\ Filled(containers[last.from]) + Filled(containers[last.to])
                    = Filled(src) + Filled(dst)
             /\ containers[last.from] = SourceAfter(src, k)
             /\ containers[last.to] = DestAfter(dst, src, k)
    /\ IsMove =>
         /\ \A id \in ColorIds : ColorCount(containers, id) = ColorCount(last.before, id)
         /\ Capacities(containers) = Capacities(last.before)
    /\ pc \in {"shuffle", "shuffled"} =>
         /\ \A id \in ColorIds : ColorCount(containers, id) = ColorCount(shuffleStart, id)
         /\ Capacities(containers) = Capacities(shuffleStart)

\* C1 witness: a shuffle that has applied a reverse move of two packets
C1_Witness ==
    /\ pc = "shuffled" /\ Len(history) >= 1
    /\ Filled(last.before[last.from]) - Filled(containers[last.from]) = 2

\* C2: pour_into returns false and changes nothing when the source is empty,
\* the destination has no empty slot, or the destination is non-empty with
\* another top color than the source; in every other case it returns true.
C2_PourLegality ==
    last.op = "pour_into" =>
        LET src == last.before[last.from]
            dst == last.before[last.to]
            illegal == \/ Filled(src) = 0
                       \/ Filled(dst) = Len(dst.packets)
                       \/ Filled(dst) > 0 /\ dst.packets[Filled(dst)] # src.packets[Filled(src)]
        IN  IF illegal THEN ~last.ret /\ containers = last.before
            ELSE last.ret

\* C2 witness: a pour out of a non-empty source onto a destination with room
\* that was refused, the top colors being different
C2_Witness ==
    /\ last.op = "pour_into" /\ ~last.ret
    /\ Filled(last.before[last.from]) > 0
    /\ Filled(last.before[last.to]) \in 1..(Len(last.before[last.to].packets) - 1)

\* depth of the block of equal colors on top, counted from the slots
TopBlock(c) ==
    Cardinality({i \in 1..Filled(c) :
                    \A j \in i..Filled(c) : c.packets[j] = c.packets[Filled(c)]})

\* C3: a successful pour_into moves exactly min(top-block depth of the
\* source, empty space of the destination) packets from the top of the source
\* onto the top of the destination, none dropped.
C3_PourAmount ==
    last.op = "pour_into" /\ last.ret =>
        LET src == last.before[last.from]
            dst == last.before[last.to]
            k == Min(TopBlock(src), Len(dst.packets) - Filled(dst))
        IN  /\ k >= 1
            /\ containers[last.from] = SourceAfter(src, k)
            /\ containers[last.to] = DestAfter(dst, src, k)

\* C3 witness: "AAB" poured into "B.." gives "AA." and "BB."
C3_Witness ==
    /\ last.op = "pour_into" /\ last.ret
    /\ last.before[last.from].packets = <<0, 0, 1>>
    /\ last.before[last.to].packets = <<1, Empty, Empty>>
    /\ containers[last.from].packets = <<0, 0, Empty>>
    /\ containers[last.to].packets = <<1, 1, Empty>>

\* C4: after a successful reverse_pour_into the source, if not empty, still
\* shows the top color it showed before; it is emptied only when all it held
\* was one block of a single color.
C4_ReverseRemainder ==
    last.op = "reverse_pour_into" /\ last.ret =>
        LET src == last.before[last.from]
            now == containers[last.from]
        IN  /\ Filled(now) > 0 => now.packets[Filled(now)] = src.packets[Filled(src)]
            /\ Filled(now) = 0 => TopBlock(src) = Filled(src)

\* C4 witness: a reverse pour out of a container holding two colors, with
\* more asked for than the top block can give
C4_Witness ==
    /\ last.op = "reverse_pour_into" /\ last.ret
    /\ TopBlock(last.before[last.from]) < Filled(last.before[last.from])
    /\ last.arg >= TopBlock(last.before[last.from])
    /\ Filled(containers[last.from]) > 0

\* C5: in every container the filled packets are the slots 1..n for some n
\* (no empty slot below a filled one) and capacity is the number of slots.
C5_StackDiscipline ==
    \A i \in 1..Len(containers) :
        /\ \A j \in 1..Len(containers[i].packets) :
              containers[i].packets[j] # Empty =>
                  \A k \in 1..j : containers[i].packets[k] # Empty
        /\ containers[i].capacity = Len(containers[i].packets)

\* C5 witness: a resize that cut filled packets off and left some
C5_Witness ==
    /\ last.op = "resize"
    /\ Filled(containers[last.from]) < Filled(last.before[last.from])
    /\ Filled(containers[last.from]) >= 1

\* ------------------------------------------------- specification: equality
EqMaxSlots == 3     \* slots of all containers of a compared state together

\* the containers new_from_repr builds from the lines
ContainerSet == {FluidContainer_new_from_repr(l) : l \in Lines}

\* puzzle states of at most NGame containers and at most EqMaxSlots slots
\* (zero-capacity containers, which change_capacity leaves behind, included)
EqStates ==
    {cs \in SeqsUpTo(ContainerSet, NGame) : SumSeq(Capacities(cs)) <= EqMaxSlots}

InitEq ==
    /\ containers \in EqStates
    /\ rhs \in EqStates
    /\ last = NoOp
    /\ pc = "eq"
    /\ ShuffleIdle
    /\ OracleIdle
    /\ EngineIdle

\* containers == rhs is evaluated
Compare ==
    /\ pc = "eq"
    /\ pc' = "compared"
    /\ last' = [NoOp EXCEPT !.op = "eq", !.ret = GameState_eq(containers, rhs)]
    /\ UNCHANGED <<containers, shuffleStart, history, iter, ways, pool, liquids,
                   stage, result, rhs, tasks, found>>
    /\ UNCHANGED engineVars

NextEq == Compare

SpecEq == InitEq /\ [][NextEq]_vars

\* how often the container c occurs in the state cs
Occurrences(cs, c) == Cardinality({i \in 1..Len(cs) : cs[i] = c})

\* C6: two puzzle states compare equal exactly when they hold the same
\* containers (contents and capacity) the same number of times, in any order.
C6_CanonicalEquality ==
    pc = "compared" =>
        (last.ret <=> /\ Len(containers) = Len(rhs)
                      /\ \A c \in Range(containers) \cup Range(rhs) :
                            Occurrences(containers, c) = Occurrences(rhs, c))

\* C6 witness: three different containers compared equal with a reordering
\* that leaves none of them in place
C6_Witness ==
    /\ pc = "compared" /\ last.ret
    /\ Len(containers) = 3 /\ Cardinality(Range(containers)) = 3
    /\ \A i \in 1..3 : containers[i] # rhs[i]

\* C7: is_solvable() returns true on what shuffle() leaves of a solved state,
\* whichever moves shuffle() chose.
C7_ShuffleSolvable ==
    pc = "done" /\ is_solved(shuffleStart) => result = "true"

\* C7 witness: a solved state, shuffled by two moves or more, whose verdict
\* the exact stage gave
C7_Witness ==
    /\ pc = "done" /\ is_solved(shuffleStart)
    /\ Len(history) >= 2
    /\ stage = "exact"

RECURSIVE PourBack(_, _)
\* the forward pours to -> from of the moves of h, last move first: the state
\* reached, and whether every pour was legal
PourBack(cs, h) ==
    IF h = <<>> THEN [cs |-> cs, legal |-> TRUE]
    ELSE LET mv == h[Len(h)]
             back == MoveAction(mv.to_container, mv.from_container, 0)
             rest == PourBack(apply_move(cs, back), SubSeq(h, 1, Len(h) - 1))
         IN  [cs |-> rest.cs,
              legal |-> rest.legal /\ could_pour_into(cs[mv.to_container],
                                                      cs[mv.from_container])]

\* C8: at every point of shuffle(), pouring forward to -> from for each
\* reverse move applied so far, the last one first, is legal at every step and
\* leads back to the state shuffle() was called on.
C8_ShuffleReversible ==
    pc \in {"shuffle", "shuffled"} =>
        /\ PourBack(containers, history).legal
        /\ PourBack(containers, history).cs = shuffleStart

\* C8 witness: a shuffle of a solved state that has ended after three moves
C8_Witness ==
    /\ pc = "shuffled" /\ is_solved(shuffleStart)
    /\ Len(history) >= 3

\* the colors a state holds
ColorsPresent(cs) ==
    {cs[i].packets[j] : <<i, j>> \in {p \in (1..Len(cs)) \X (1..(MaxCap + 1)) :
            p[2] <= Len(cs[p[1]].packets) /\ cs[p[1]].packets[p[2]] # Empty}}

\* packets of color id, and empty slots, counted over all slots
CountOf(cs, id) ==
    Cardinality({p \in (1..Len(cs)) \X (1..(MaxCap + 1)) :
                    p[2] <= Len(cs[p[1]].packets) /\ cs[p[1]].packets[p[2]] = id})

RECURSIVE CapacityOf(_, _)
\* the capacities of the containers of the index set S, added up
CapacityOf(cs, S) ==
    IF S = {} THEN 0
    ELSE LET i == CHOOSE k \in S : TRUE
         IN  Len(cs[i].packets) + CapacityOf(cs, S \ {i})

\* the containers can be dealt out: to each color containers whose
\* capacities add up to its packet count, the rest adding up to the empty space
PartitionExists(cs) ==
    \E owner \in [1..Len(cs) -> ColorsPresent(cs) \cup {Empty}] :
        \A id \in ColorsPresent(cs) \cup {Empty} :
            CapacityOf(cs, {i \in 1..Len(cs) : owner[i] = id}) = CountOf(cs, id)

\* C9: when the fast stages are inconclusive, the exact stage returns true
\* exactly when the containers can be dealt out to the colors and the empty
\* space.
C9_OracleAgreement ==
    pc = "done" /\ stage = "exact" => (result = "true" <=> PartitionExists(containers))

\* C9 witness: a verdict true that the backtracking search gave over two
\* targets or more, each with several ways
C9_Witness ==
    /\ pc = "done" /\ stage = "exact" /\ result = "true"
    /\ Len(liquids) >= 2
    /\ \A n \in 1..Len(liquids) : Len(ways[liquids[n]]) >= 2

\* the sums of the capacities of the sets of containers
SubsetSums(cs) == {CapacityOf(cs, S) : S \in SUBSET (1..Len(cs))}

\* C10: when the packet count of some color, or the empty space, is not the
\* sum of the capacities of any set of containers, is_solvable() returns false.
C10_FastUnsolvableSound ==
    pc = "done" /\ (\E id \in ColorsPresent(containers) \cup {Empty} :
                        CountOf(containers, id) \notin SubsetSums(containers))
        => result = "false"

\* C10 witness: a verdict on a state whose colors all fit some set of
\* containers while its empty space fits none
C10_Witness ==
    /\ pc = "done" /\ result = "false"
    /\ \A id \in ColorsPresent(containers) : CountOf(containers, id) \in SubsetSums(containers)
    /\ CountOf(containers, Empty) \notin SubsetSums(containers)

\* ------------------------------------------------- the search in parallel
RECURSIVE RemainingAfter(_, _, _)
\* the containers left when the ways of the path have been taken one after
\* the other for the liquids from number k on; fits is false when one of the
\* ways asks for more than is left
RemainingAfter(path, k, remaining) ==
    IF path = <<>> THEN [fits |-> TRUE, remaining |-> remaining]
    ELSE LET way == ways[liquids[k]][Head(path)]
         IN  IF \E size \in DOMAIN way : Get(remaining, size) < way[size]
             THEN [fits |-> FALSE, remaining |-> remaining]
             ELSE RemainingAfter(Tail(path), k + 1,
                                 [size \in DOMAIN remaining \cup DOMAIN way |->
                                     Get(remaining, size) - Get(way, size)])

\* the verdict a sequential exhaustive search gives for the whole puzzle
SequentialVerdict == recursive_is_solvable(ways, pool, liquids)

\* the verdict a sequential exhaustive search gives below the path
SequentialBelow(path) ==
    /\ RemainingAfter(path, 1, pool).fits
    /\ recursive_is_solvable(ways, RemainingAfter(path, 1, pool).remaining,
                             SubSeq(liquids, Len(path) + 1, Len(liquids)))

C11_Sound ==
    /\ found => SequentialVerdict
    /\ pc = "searching" =>
          \A p \in DOMAIN tasks :
              tasks[p].st = "done" =>
                  /\ tasks[p].ret => SequentialVerdict
                  /\ ~tasks[p].ret => ~SequentialBelow(p)
    /\ pc = "done" /\ <<>> \in DOMAIN tasks => result = Bool(SequentialVerdict)

C11_FlagStep ==
    /\ found => found'
    /\ ~found /\ found' =>
          \E p \in DOMAIN tasks :
              /\ tasks[p].st = "entry" /\ tasks'[p].st = "done"
              /\ Len(p) = Len(liquids)
              /\ RemainingAfter(p, 1, pool).fits

\* C11: whatever the interleaving of the parallel branches and whenever the
\* relaxed reads of 'found' see its store, every value a call returns and the
\* verdict of is_solvable() are those of the sequential exhaustive search
\* (true only when the puzzle has a solution, false only when nothing below
\* the call has one); the flag only goes from false to true and is stored
\* only by a call whose path has matched every liquid.
C11_FoundIsHint == [](C11_Sound) /\ [][C11_FlagStep]_vars

\* C11 witness: the flag is set, a call has returned true on reading it
\* without having matched every liquid, and another way, not cancelled, is
\* still being worked on
C11_Witness ==
    /\ pc = "searching" /\ found
    /\ \E p \in DOMAIN tasks :
          /\ tasks[p].st = "done" /\ tasks[p].ret
          /\ Len(p) < Len(liquids) /\ Children(p) = {}
          /\ ~SequentialBelow(p)
    /\ \E q \in DOMAIN tasks : tasks[q].st = "entry"

\* ----------------------------------------------------------- the text codec
\* C12: a state parsed from text, written out with get_text_representation
\* and parsed again, is the same state: same containers, capacities, packets.
C12_RoundTrip ==
    pc = "reparsed" => rhs = containers

\* the containers of one slot holding a color of several letters: their text
\* is the label alone, without a comma
LoneLabel(c) == c.capacity = 1 /\ c.packets[1] >= 26

\* what the code does keep: the round trip of every state without such a
\* container, colors of several letters included
C12_RoundTripElsewhere ==
    pc = "reparsed" /\ (\A i \in 1..Len(containers) : ~LoneLabel(containers[i]))
        => rhs = containers

C12_Witness ==
    /\ pc = "reparsed" /\ rhs = containers
    /\ \E i \in 1..Len(containers) :
          containers[i].capacity >= 2 /\ containers[i].packets[1] >= 26

\* ------------------------------------------------------- moves that fault
\* C13: apply_move and apply_reverse_move with equal indices, or with an
\* index that is not one of a container, fault, and the containers are then
\* as they were before the call.
C13_BadMoveFaults ==
    last.op \in {"apply_move", "apply_reverse_move"}
        /\ (last.from = last.to \/ last.from \notin 1..Len(last.before)
                                \/ last.to \notin 1..Len(last.before))
        => pc = "fault" /\ containers = last.before

\* C13 witness: a faulted move between a container that could pour and the
\* index just past the last container
C13_Witness ==
    /\ pc = "fault" /\ last.op = "apply_move"
    /\ last.from \in 1..Len(last.before) /\ last.to = Len(last.before) + 1
    /\ Filled(last.before[last.from]) > 0

\* ------------------------------------------------------------- termination
\* C14: is_solvable() ends with a verdict true or false on every state: the
\* enumeration of the ways, the loop over the forced choices and the
\* parallel search all come to an end when the workers keep working.
C14_Terminates == <>(pc = "done" /\ result \in {"true", "false"})

\* C14 witness: a verdict of the search, reached after the loop over the
\* forced choices had taken a target away and left two or more
C14_Witness ==
    /\ pc = "done" /\ <<>> \in DOMAIN tasks
    /\ Len(liquids) >= 2
    /\ Len(liquids) < Len(LiquidSizeVec(containers))

\* ------------------------------------------------------------ reverse pour
\* the depth of the top block that a reverse pour may take: one less than
\* the block, unless the block is all the container holds
AdjustedDepth(c) == IF TopBlock(c) = Filled(c) THEN TopBlock(c) ELSE TopBlock(c) - 1

\* C15: reverse_pour_into(self, other, amount) moves exactly
\* min(amount, empty space of other, adjusted depth of self) packets from the
\* top of self onto other; it returns false, changing nothing, exactly when
\* that minimum is 0; the top color of other plays no part.
C15_ReverseAmount ==
    last.op = "reverse_pour_into" =>
        LET src == last.before[last.from]
            dst == last.before[last.to]
            k == Min(last.arg, Min(Len(dst.packets) - Filled(dst), AdjustedDepth(src)))
        IN  /\ last.ret <=> k > 0
            /\ containers[last.from] = SourceAfter(src, k)
            /\ containers[last.to] = DestAfter(dst, src, k)
            /\ k = 0 => containers = last.before

\* C15 witness: a reverse pour onto a container showing another color, the
\* amount asked for being less than the space and the adjusted depth
C15_Witness ==
    /\ last.op = "reverse_pour_into" /\ last.ret
    /\ Filled(last.before[last.to]) > 0
    /\ last.before[last.to].packets[Filled(last.before[last.to])]
          # last.before[last.from].packets[Filled(last.before[last.from])]
    /\ last.arg < Len(last.before[last.to].packets) - Filled(last.before[last.to])
    /\ last.arg < AdjustedDepth(last.before[last.from])

\* -------------------------------------------- reverse pour and forward pour
\* the top color of a container, Empty for an empty one
TopColor(c) == IF Filled(c) = 0 THEN Empty ELSE c.packets[Filled(c)]

\* pour_into from the destination of the last pour back into its source
\* succeeds and gives both containers the contents they had before it
PouredBack ==
    LET r == pour_into(containers[last.to], containers[last.from])
    IN  /\ r.ret
        /\ r.self = last.before[last.to]
        /\ r.other = last.before[last.from]

C17_ReverseUndoesPour ==
    last.op = "pour_into" /\ last.ret =>
        LET k == Filled(last.before[last.from]) - Filled(containers[last.from])
            r == reverse_pour_into(containers[last.to], containers[last.from], k)
        IN  /\ k > 0
            /\ r.ret
            /\ Filled(containers[last.to]) - Filled(r.self) = k
            /\ r.self = last.before[last.to]
            /\ r.other = last.before[last.from]

\* C17 witness: a forward pour that emptied its source into an empty
\* container, so that the block poured back is all that container holds
C17_Witness ==
    /\ last.op = "pour_into" /\ last.ret
    /\ Filled(last.before[last.to]) = 0
    /\ Filled(containers[last.to]) >= 2
    /\ Filled(containers[last.from]) = 0

\* C17 witness: a forward pour limited by the room of a destination that
\* showed the same color above another one
C17_WitnessJoined ==
    /\ last.op = "pour_into" /\ last.ret
    /\ Filled(last.before[last.to]) >= 2
    /\ TopColor(containers[last.from]) = TopColor(containers[last.to])
    /\ last.before[last.to].packets[1] # TopColor(containers[last.to])

\* ------------------------------------------------------------ listed moves
\* what pour_into would move from container from to container to, counted
\* from the slots
ForwardAmount(cs, from, to) ==
    IF Filled(cs[to]) = 0 \/ TopColor(cs[to]) = TopColor(cs[from])
    THEN Min(TopBlock(cs[from]), Len(cs[to].packets) - Filled(cs[to]))
    ELSE 0

\* the ordered pairs of distinct containers whose source is not empty and
\* whose pour would move the whole top block of the source
WholeBlockPairs(cs) ==
    {p \in (1..Len(cs)) \X (1..Len(cs)) :
        /\ p[1] # p[2]
        /\ Filled(cs[p[1]]) > 0
        /\ ForwardAmount(cs, p[1], p[2]) = TopBlock(cs[p[1]])}

\* C18: get_possible_moves lists exactly the ordered pairs of distinct
\* containers whose source is not empty and whose pourable amount is the whole
\* top-block depth of the source, each with that amount; a pour that would
\* leave part of the block behind is not listed; a listed move that is
\* applied moves its amount.
C18_ForwardMoves ==
    /\ pc = "idle" =>
          Range(get_possible_moves(containers)) =
              {MoveAction(p[1], p[2], ForwardAmount(containers, p[1], p[2])) :
                  p \in WholeBlockPairs(containers)}
    /\ last.op = "apply_random_move" =>
          /\ last.ret <=> WholeBlockPairs(last.before) # {}
          /\ last.ret =>
                /\ <<last.from, last.to>> \in WholeBlockPairs(last.before)
                /\ last.arg = TopBlock(last.before[last.from])
                /\ Filled(last.before[last.from]) - Filled(containers[last.from]) = last.arg
                /\ Filled(containers[last.to]) - Filled(last.before[last.to]) = last.arg

\* C18 witness: a listed move was applied in a state where another pour onto
\* the same color was kept off the list by the room of its destination
C18_Witness ==
    /\ last.op = "apply_random_move" /\ last.ret
    /\ \E from, to \in 1..Len(last.before) :
          /\ from # to
          /\ ForwardAmount(last.before, from, to) > 0
          /\ ForwardAmount(last.before, from, to) < TopBlock(last.before[from])

\* what a reverse pour from container from to container to may move at most,
\* counted from the slots
ReverseAmount(cs, from, to) ==
    Min(Len(cs[to].packets) - Filled(cs[to]), AdjustedDepth(cs[from]))

\* that amount, one less when limit_size is set and it is all the source holds
ListedReverseAmount(cs, from, to, limit_size) ==
    IF limit_size /\ ReverseAmount(cs, from, to) = Filled(cs[from])
    THEN ReverseAmount(cs, from, to) - 1
    ELSE ReverseAmount(cs, from, to)

\* the ordered pairs of distinct containers with a non-empty source and
\* differing top colors (an empty destination shows none)
ReversePairs(cs) ==
    {p \in (1..Len(cs)) \X (1..Len(cs)) :
        /\ p[1] # p[2]
        /\ Filled(cs[p[1]]) > 0
        /\ TopColor(cs[p[1]]) # TopColor(cs[p[2]])}

\* C19: get_possible_reverse_moves(limit_size) lists exactly the ordered pairs
\* of distinct containers with a non-empty source, differing top colors and a
\* positive amount, the amount being the reverse-pourable amount, less one
\* when limit_size is set and the amount is all the source holds; the
\* subtraction never goes below zero; a listed move that is applied moves
\* exactly its amount.
C19_ReverseMoves ==
    /\ pc = "idle" =>
          \A limit_size \in BOOLEAN :
              /\ get_possible_reverse_moves(containers, limit_size) =
                    {MoveAction(p[1], p[2],
                                ListedReverseAmount(containers, p[1], p[2], limit_size)) :
                        p \in {q \in ReversePairs(containers) :
                            ListedReverseAmount(containers, q[1], q[2], limit_size) > 0}}
              /\ \A from, to \in 1..Len(containers) :
                    /\ ~is_empty(containers[from])
                    /\ ~(containers[from] = containers[to]
                          \/ get_top_fluid(containers[from]) = get_top_fluid(containers[to]))
                    => ReverseMoveAmount(containers, from, to, limit_size) >= 0
    /\ last.op = "apply_random_reverse_move" /\ last.ret =>
          /\ last.arg > 0
          /\ Filled(last.before[last.from]) - Filled(containers[last.from]) = last.arg
          /\ Filled(containers[last.to]) - Filled(last.before[last.to]) = last.arg
          /\ \A i \in 1..Len(containers) :
                i \notin {last.from, last.to} => containers[i] = last.before[i]

\* C19 witness: with limit_size set, a listed move was applied whose amount
\* had been reduced by one, the source being one block with room for all of
\* it in the destination
C19_Witness ==
    /\ last.op = "apply_random_reverse_move" /\ last.ret
    /\ stage = "limit_size"
    /\ ReverseAmount(last.before, last.from, last.to) = Filled(last.before[last.from])
    /\ last.arg = Filled(last.before[last.from]) - 1
    /\ Filled(last.before[last.to]) > 0

\* C19 witness: without limit_size a listed move emptied its source
C19_WitnessUnlimited ==
    /\ last.op = "apply_random_reverse_move" /\ last.ret
    /\ stage = "none"
    /\ Filled(containers[last.from]) = 0
    /\ last.arg >= 2

\* ------------------------------------------------------------ shuffle steps
\* the moves a shuffle step may take in state cs: listed with limit_size set,
\* into a container of the smallest top-block depth of all containers, out of
\* one of the largest
RestrictedReverseMoves(cs) ==
    {MoveAction(p[1], p[2], ListedReverseAmount(cs, p[1], p[2], TRUE)) :
        p \in {q \in ReversePairs(cs) :
            /\ ListedReverseAmount(cs, q[1], q[2], TRUE) > 0
            /\ \A i \in 1..Len(cs) :
                  /\ TopBlock(cs[q[2]]) <= TopBlock(cs[i])
                  /\ TopBlock(cs[q[1]]) >= TopBlock(cs[i])}}

\* C20: every step of shuffle() applies a reverse move that
\* get_possible_reverse_moves(true) lists, whose destination has the smallest
\* and whose source the largest top-block depth of all containers of the
\* state at hand; shuffle() applies at most 1000 moves and stops at the first
\* step that finds no such move.
C20_ShuffleSteps ==
    /\ pc \in {"shuffle", "shuffled"} /\ history # <<>> =>
          /\ last.op = "shuffle"
          /\ history[Len(history)] = MoveAction(last.from, last.to, last.arg)
          /\ history[Len(history)] \in RestrictedReverseMoves(last.before)
          /\ containers = apply_reverse_move(last.before, history[Len(history)])
          /\ Filled(last.before[last.from]) - Filled(containers[last.from]) = last.arg
    /\ pc \in {"shuffle", "shuffled"} =>
          /\ iter = Len(history)
          /\ Len(history) <= ShuffleIterations
    /\ pc = "shuffled" =>
          Len(history) = ShuffleIterations \/ RestrictedReverseMoves(containers) = {}

\* C20 witness: a step of shuffle() took a move while another listed move was
\* kept out by the depth of its source or destination
C20_Witness ==
    /\ pc = "shuffle" /\ history # <<>>
    /\ \E mv \in get_possible_reverse_moves(last.before, TRUE) :
          mv \notin RestrictedReverseMoves(last.before)

\* C20 witness: shuffle() has stopped after a move in a state where reverse
\* moves are listed but none passes both restrictions
C20_WitnessStopped ==
    /\ pc = "shuffled" /\ Len(history) >= 1
    /\ get_possible_reverse_moves(containers, TRUE) # {}
    /\ RestrictedReverseMoves(containers) = {}


\* ------------------------------------------------- the amount field of a move
\* the state after k packets went from the top of container from onto
\* container to, counted from the slots
StateAfter(cs, from, to, k) ==
    [cs EXCEPT ![from] = SourceAfter(cs[from], k), ![to] = DestAfter(cs[to], cs[from], k)]

\* C21: apply_move moves what the pour from -> to moves in the state at hand,
\* whatever the amount field of the move says, so that two moves with the same
\* from and to give the same state; apply_reverse_move moves
\* min(amount, reverse-pourable amount).
C21_AmountDerived ==
    /\ last.op = "apply_move" /\ pc # "fault" =>
          /\ containers = StateAfter(last.before, last.from, last.to,
                                     ForwardAmount(last.before, last.from, last.to))
          /\ \A amount \in Amounts :
                apply_move(last.before, MoveAction(last.from, last.to, amount)) = containers
    /\ last.op = "apply_reverse_move" /\ pc # "fault" =>
          containers = StateAfter(last.before, last.from, last.to,
                          Min(last.arg, ReverseAmount(last.before, last.from, last.to)))

\* C21 witness: apply_move with amount 0 moved two packets or more
C21_Witness ==
    /\ last.op = "apply_move" /\ pc # "fault"
    /\ last.arg = 0
    /\ ForwardAmount(last.before, last.from, last.to) >= 2
    /\ containers # last.before

\* C21 witness: apply_reverse_move moved the amount asked for, less than it
\* could have moved
C21_WitnessReverse ==
    /\ last.op = "apply_reverse_move" /\ pc # "fault"
    /\ last.arg >= 1
    /\ last.arg < ReverseAmount(last.before, last.from, last.to)
    /\ containers # last.before


\* ------------------------------------------------------------------ resize
\* container c has capacity n, and its slots are those of old below
\* min(old capacity, n) and empty above
ResizedTo(c, old, n) ==
    /\ c.capacity = n
    /\ Len(c.packets) = n
    /\ \A i \in 1..n : c.packets[i] = IF i <= Len(old.packets) THEN old.packets[i] ELSE Empty
    /\ Filled(c) = Min(Filled(old), n)

\* C22: resize(new_capacity) gives a container of capacity new_capacity whose
\* slots below min(old, new) capacity are unchanged; growing adds empty slots
\* at the top, shrinking drops the slots from new_capacity on, filled or not,
\* so that the filled amount is min(old filled amount, new_capacity);
\* change_capacity(delta) resizes to capacity + delta, and to 0 when that
\* would be negative.
C22_Resize ==
    /\ last.op = "resize" =>
          ResizedTo(containers[last.from], last.before[last.from], last.arg)
    /\ last.op = "change_capacity" =>
          LET old == last.before[last.from]
          IN  ResizedTo(containers[last.from], old,
                        IF old.capacity + last.arg < 0 THEN 0 ELSE old.capacity + last.arg)
    /\ last.op \in {"resize", "change_capacity"} =>
          \A i \in 1..Len(containers) : i # last.from => containers[i] = last.before[i]

\* C22 witness: a resize to a smaller capacity, not 0, dropped filled packets
C22_Witness ==
    /\ last.op = "resize"
    /\ last.arg > 0
    /\ Filled(last.before[last.from]) > last.arg
    /\ Filled(containers[last.from]) = last.arg

\* C22 witness: change_capacity by more than the capacity of a container that
\* held packets
C22_WitnessSaturated ==
    /\ last.op = "change_capacity"
    /\ last.before[last.from].capacity + last.arg < 0
    /\ Filled(last.before[last.from]) > 0
    /\ containers[last.from].capacity = 0

\* C22 witness: a resize to a larger capacity of a container that held packets
C22_WitnessGrown ==
    /\ last.op = "resize"
    /\ last.arg > last.before[last.from].capacity
    /\ Filled(last.before[last.from]) > 0


\* ------------------------------------------------------- the fast stages
\* for every packet count, the colors with exactly that count are no more
\* than the containers with exactly that capacity
EveryColorHasItsContainer(cs) ==
    \A id \in ColorsPresent(cs) :
        Cardinality({other \in ColorsPresent(cs) : CountOf(cs, other) = CountOf(cs, id)})
            <= Cardinality({i \in 1..Len(cs) : Len(cs[i].packets) = CountOf(cs, id)})

\* stage 1 does not certify the state unsolvable: every packet count and the
\* empty space are sums of capacities of sets of containers
Stage1Passes(cs) ==
    \A id \in ColorsPresent(cs) \cup {Empty} : CountOf(cs, id) \in SubsetSums(cs)

\* C23: when for every packet count the colors with exactly that count are no
\* more than the containers with exactly that capacity, and stage 1 did not
\* certify the state unsolvable, is_solvable() returns true, and the
\* containers can indeed be dealt out to the colors; when they are not, the
\* stage-2 check is not what gives a verdict.
C23_Stage2Sufficient ==
    /\ pc = "done" /\ EveryColorHasItsContainer(containers) /\ Stage1Passes(containers) =>
          /\ result = "true"
          /\ PartitionExists(containers)
    /\ pc = "done" /\ stage = "fast_solvable" => EveryColorHasItsContainer(containers)

\* C23 witness: the stage-2 check gave the verdict true on a state that is not
\* solved, with containers of different capacities and two colors or more
C23_Witness ==
    /\ pc = "done" /\ stage = "fast_solvable" /\ result = "true"
    /\ Cardinality(ColorsPresent(containers)) >= 2
    /\ EveryColorHasItsContainer(containers)

\* C23 witness: colors A(3) and B(3) with three containers of capacity 3
C23_WitnessExample ==
    /\ pc = "done" /\ result = "true"
    /\ Len(containers) = 3
    /\ \A i \in 1..3 : Len(containers[i].packets) = 3
    /\ ColorsPresent(containers) = {0, 1}
    /\ CountOf(containers, 0) = 3 /\ CountOf(containers, 1) = 3


\* all containers have the same capacity
OneCapacity(cs) == \A i, j \in 1..Len(cs) : Len(cs[i].packets) = Len(cs[j].packets)

\* C24: when all containers share one capacity and stage 1 did not certify the
\* state unsolvable, is_solvable() returns true, and the containers can indeed
\* be dealt out whole to the colors and the empty space; the verdict of the
\* shortcut is never true where they cannot.
C24_EqualCapacityShortcut ==
    /\ pc = "done" /\ OneCapacity(containers) /\ Stage1Passes(containers) =>
          /\ result = "true"
          /\ PartitionExists(containers)
    /\ pc = "done" /\ stage = "same_size" =>
          /\ OneCapacity(containers)
          /\ result = "true" <=> PartitionExists(containers)

\* C24 witness: the shortcut gave the verdict on a state of three containers
\* that is not solved and holds two colors
C24_Witness ==
    /\ pc = "done" /\ stage = "same_size" /\ result = "true"
    /\ Len(containers) = 3
    /\ Cardinality(ColorsPresent(containers)) = 2


\* ------------------------------------------------------- the target sizes
\* the packet counts of the colors of a state, and the largest of them
ColorCounts(cs) == {CountOf(cs, id) : id \in ColorsPresent(cs)}
LargestColorCount(cs) ==
    IF ColorCounts(cs) = {} THEN 0
    ELSE CHOOSE x \in ColorCounts(cs) : \A y \in ColorCounts(cs) : y <= x

\* a step in which is_solvable() builds its target sizes
BuildsTargets == pc \in {"oracle", "shuffled"} /\ pc' = "prune"

\* C25 as stated: the target sizes of the exact stage are the distinct color
\* packet counts, and the empty-space count exactly when the empty-space
\* count exceeds the largest color packet count.
C25_TargetSizes ==
    [][BuildsTargets =>
          DOMAIN ways' = ColorCounts(containers) \cup
              (IF CountOf(containers, Empty) > LargestColorCount(containers)
               THEN {CountOf(containers, Empty)} ELSE {})]_vars

\* C25, amended: the target sizes of the exact stage are the distinct color
\* packet counts, and the empty-space count exactly when the largest color
\* packet count exceeds the empty-space count.
C25_TargetSizesSmallerSpace ==
    [][BuildsTargets =>
          /\ DOMAIN ways' = ColorCounts(containers) \cup
                (IF LargestColorCount(containers) > CountOf(containers, Empty)
                 THEN {CountOf(containers, Empty)} ELSE {})
          /\ Range(liquids') = DOMAIN ways']_vars

\* C25 witness: the target sizes have just been built and the empty space,
\* less than the largest color count and no color count itself, is one of them
C25_Witness ==
    /\ pc = "prune"
    /\ Len(liquids) = Cardinality(ColorsPresent(containers)) + 1
    /\ CountOf(containers, Empty) \in DOMAIN ways
    /\ CountOf(containers, Empty) \notin ColorCounts(containers)
    /\ CountOf(containers, Empty) < LargestColorCount(containers)

\* C25 witness: the exact stage runs on a state whose empty space exceeds the
\* largest color count, and the empty space is no target
C25_WitnessLargerSpace ==
    /\ pc = "prune"
    /\ CountOf(containers, Empty) > LargestColorCount(containers)
    /\ Len(liquids) = Cardinality(ColorsPresent(containers))
    /\ DOMAIN ways = ColorCounts(containers)


\* --------------------------------------------------------------- the ways
\* the capacities of a state, and the containers of capacity c
CapacitiesPresent(cs) == {Len(cs[i].packets) : i \in 1..Len(cs)}
ContainersOf(cs, c) == Cardinality({i \in 1..Len(cs) : Len(cs[i].packets) = c})

RECURSIVE WeightedSum(_, _)
\* the sum of capacity * count over the capacities of S
WeightedSum(way, S) ==
    IF S = {} THEN 0
    ELSE LET c == CHOOSE x \in S : TRUE
         IN  c * way[c] + WeightedSum(way, S \ {c})

\* the mappings capacity -> usage count, defined on every capacity of the
\* state, that use no more containers than there are and add up to t
WaysTo(cs, t) ==
    {way \in [CapacitiesPresent(cs) -> 0..Len(cs)] :
        /\ \A c \in CapacitiesPresent(cs) : way[c] <= ContainersOf(cs, c)
        /\ WeightedSum(way, CapacitiesPresent(cs)) = t}

\* C26: after enumerate_subsets_to_target_size the ways recorded for a target
\* size t are exactly the mappings capacity -> usage count, with
\* 0 <= count <= number of containers of that capacity, defined on every
\* capacity, whose weighted sum is t; each of them is recorded once, and
\* nothing is recorded for a sum that is no target.
C26_WaysExact ==
    [][BuildsTargets =>
          /\ DOMAIN ways' = Range(liquids')
          /\ \A t \in DOMAIN ways' :
                /\ Range(ways'[t]) = WaysTo(containers, t)
                /\ Len(ways'[t]) = Cardinality(WaysTo(containers, t))]_vars

\* C26 witness: the ways have just been built for two targets or more, one of
\* them with three ways or more over three capacities
C26_Witness ==
    /\ pc = "prune"
    /\ liquids = LiquidSizeVec(containers)
    /\ Cardinality(DOMAIN ways) >= 2
    /\ Cardinality(CapacitiesPresent(containers)) >= 3
    /\ \E t \in DOMAIN ways : Len(ways[t]) >= 3 /\ Range(ways[t]) = WaysTo(containers, t)


\* ------------------------------------------------- arithmetic of the oracle
\* a count of containers of capacity size that the state can have
IsCountOf(n, size) == n \in 0..ContainersOf(containers, size)

\* no subtraction of the loop over the forced choices or of the search has
\* gone below zero, and none of the loop is about to: the containers left
\* are counts, and every way still recorded asks for no more of any capacity
\* than is left
CountsInRange ==
    /\ pc # "fault"
    /\ \A size \in DOMAIN pool : IsCountOf(pool[size], size)
    /\ pc = "prune" =>
          \A key \in DOMAIN ways : \A n \in 1..Len(ways[key]) :
              \A size \in DOMAIN ways[key][n] : ways[key][n][size] <= Get(pool, size)
    /\ \A path \in DOMAIN tasks :
          \A size \in DOMAIN tasks[path].remaining :
              IsCountOf(tasks[path].remaining[size], size)

\* a forced way, taken as often as there are liquids of its size, asks for
\* more containers of some capacity than are left
ForcedShortage ==
    \E key \in DOMAIN ways :
        /\ Len(ways[key]) = 1
        /\ \E size \in DOMAIN ways[key][1] :
              ways[key][1][size] * Cardinality({n \in 1..Len(liquids) : liquids[n] = key})
                  > Get(pool, size)

\* the loop over the forced choices ends is_solvable() only with false, and a
\* way of the search that asks for more than is left returns false and takes
\* nothing
ShortageIsFalse ==
    /\ pc = "prune" /\ pc' = "done" => result' = "false"
    /\ \A path \in DOMAIN tasks :
          /\ tasks[path].st = "closure"
          /\ path \in DOMAIN tasks'
          /\ tasks'[path].st = "entry"
          => \A size \in DOMAIN tasks'[path].remaining :
                tasks'[path].remaining[size] =
                    Get(tasks[path].remaining, size)
                        - Get(ways[liquids[Len(path)]][path[Len(path)]], size)

\* C27: in the loop over the forced choices and in the backtracking search no
\* subtraction on the counts of containers has a subtrahend larger than its
\* minuend, 'available - used' of the way filter included; a shortage gives
\* the verdict false or a discarded way, never a fault or a wrapped value.
C27_NoUnderflow == [](CountsInRange) /\ [][ShortageIsFalse]_vars

\* C27 witness: a way of the search was discarded because it asked for more
\* containers of some capacity than were left
C27_Witness ==
    /\ pc = "searching"
    /\ \E path \in DOMAIN tasks :
          /\ Len(path) >= 2
          /\ tasks[path].st = "done" /\ ~tasks[path].ret
          /\ \E size \in DOMAIN ways[liquids[Len(path)]][path[Len(path)]] :
                Get(tasks[path].remaining, size)
                    < ways[liquids[Len(path)]][path[Len(path)]][size]

\* C27 witness: the loop over the forced choices has taken a way and meets a
\* forced way that asks for more than is left
C27_WitnessForced ==
    /\ pc = "prune"
    /\ Len(liquids) < Len(LiquidSizeVec(containers))
    /\ ForcedShortage


\* ------------------------------------------------------- renaming of colors
\* the permutations of the color ids
ColorPermutations ==
    {perm \in [ColorIds -> ColorIds] : \A a, b \in ColorIds : perm[a] = perm[b] => a = b}

\* the state cs with every color id a replaced by perm[a]
Renamed(cs, perm) ==
    [i \in 1..Len(cs) |->
        [cs[i] EXCEPT !.packets =
            [j \in 1..Len(cs[i].packets) |->
                IF cs[i].packets[j] = Empty THEN Empty ELSE perm[cs[i].packets[j]]]]]

\* the two states hold the same containers the same number of times
SameContainers(a, b) ==
    /\ Len(a) = Len(b)
    /\ \A c \in Range(a) \cup Range(b) : Occurrences(a, c) = Occurrences(b, c)

\* C28 as stated: two states that differ only by a renaming of the color ids
\* compare equal.
C28_RenamingEqual ==
    pc = "compared" /\ (\E perm \in ColorPermutations : rhs = Renamed(containers, perm))
        => last.ret

\* C28, amended: a state and its renaming compare equal only when the
\* renaming leaves the collection of containers as it is (up to their order);
\* a renaming that changes the collection compares unequal.
C28_RenamingEqualOnlyIfSame ==
    pc = "compared" =>
        \A perm \in ColorPermutations :
            rhs = Renamed(containers, perm) =>
                (last.ret <=> SameContainers(containers, Renamed(containers, perm)))

\* C28 witness: a state of two colors compared unequal to its renaming
C28_Witness ==
    /\ pc = "compared" /\ ~last.ret
    /\ Cardinality(ColorsPresent(containers)) = 2
    /\ \E perm \in ColorPermutations : rhs = Renamed(containers, perm)

\* C28 witness: a state compared equal to a renaming that changes every
\* container and leaves the collection as it is
C28_WitnessSame ==
    /\ pc = "compared" /\ last.ret
    /\ \A i \in 1..Len(containers) : containers[i] # rhs[i]
    /\ Len(containers) >= 2
    /\ \E perm \in ColorPermutations : rhs = Renamed(containers, perm)


\* ------------------------------------------------------------ color labels
\* the label of color id n in the numbering A = 0 .. Z = 25, AA = 26,
\* AB = 27 .. ZZ = 701, AAA = 702 ..: one, two or three letters
ExcelLabel(n) ==
    IF n < 26 THEN <<Letters[n + 1]>>
    ELSE IF n < 702
    THEN <<Letters[((n - 26) \div 26) + 1], Letters[((n - 26) % 26) + 1]>>
    ELSE <<Letters[((n - 702) \div 676) + 1], Letters[(((n - 702) \div 26) % 26) + 1],
           Letters[((n - 702) % 26) + 1]>>

\* C29: the labels are A..Z for the ids 0..25, AA for 26, AB for 27 and so
\* on; the label of every color id, read as one token, gives the id again; a
\* line made of one label and a trailing comma gives a container of exactly
\* one packet, of that id, also when the label has several letters.
C29_LabelsInvertible ==
    LET n == containers[1].packets[1]
    IN  /\ pc \in {"lettered", "token_parsed", "line_parsed"} => last.ret = ExcelLabel(n)
        /\ pc = "token_parsed" => rhs = <<n>>
        /\ pc = "line_parsed" => rhs = <<[packets |-> <<n>>, capacity |-> 1]>>

\* C29 witness: the line "AB," was read as one container of one packet of
\* color 27
C29_Witness ==
    /\ pc = "line_parsed"
    /\ last.ret = <<"A", "B">>
    /\ rhs = <<[packets |-> <<27>>, capacity |-> 1]>>

\* C29 witness: the label of a color id was three letters long and gave the
\* id again
C29_WitnessThreeLetters ==
    /\ pc = "token_parsed"
    /\ Len(last.ret) = 3
    /\ rhs = <<containers[1].packets[1]>>


\* ---------------------------------------------------------------------------
\* C30: text of any content is parsed without failure.  A line with a comma
\* gives one slot for each non-empty piece between commas, a line without one
\* a slot for each character; a slot holds a color only if its token is a
\* sequence of letters, and is Empty otherwise; a line that gives no slot
\* gives no container.

IsLetterChar(ch) == ch \in Range(Letters) \cup Range(LowerLetters)

PureLetters(tok) == tok # <<>> /\ \A i \in 1..Len(tok) : IsLetterChar(tok[i])

\* letters with blanks on either side
PaddedLetters(tok) ==
    \E a, b \in 1..Len(tok) :
        /\ a <= b
        /\ PureLetters(SubSeq(tok, a, b))
        /\ \A i \in 1..Len(tok) : i \notin a..b => tok[i] = " "

\* the tokens of a line, each as the pair of positions that enclose it
TokenBounds(line) ==
    IF "," \in Range(line)
    THEN LET stops == {i \in 1..Len(line) : line[i] = ","} \cup {0, Len(line) + 1}
         IN  {p \in stops \X stops :
                 /\ p[1] + 1 < p[2]
                 /\ \A i \in stops : ~(p[1] < i /\ i < p[2])}
    ELSE {<<i - 1, i + 1>> : i \in 1..Len(line)}

TokenAt(line, p) == SubSeq(line, p[1] + 1, p[2] - 1)

\* colors held and slots of each container, as the statement gives them
ShapeAsStated(text) ==
    LET HasSlots(s) == s[2] # 0
    IN  SelectSeq([i \in 1..Len(text) |->
                      <<Cardinality({p \in TokenBounds(text[i]) :
                                        PureLetters(TokenAt(text[i], p))}),
                        Cardinality(TokenBounds(text[i]))>>],
                  HasSlots)

\* the same, a token counting as letters when blanks surround them
ShapeTrimmed(text) ==
    LET HasSlots(s) == s[2] # 0
    IN  SelectSeq([i \in 1..Len(text) |->
                      <<Cardinality({p \in TokenBounds(text[i]) :
                                        PaddedLetters(TokenAt(text[i], p))}),
                        Cardinality(TokenBounds(text[i]))>>],
                  HasSlots)

ShapeParsed(cs) == [i \in 1..Len(cs) |-> <<Filled(cs[i]), cs[i].capacity>>]

C30_WitnessPadded ==
    /\ pc = "parsed"
    /\ last.arg = << <<"?", ",", " ">>, <<" ", "b", ",">> >>
    /\ containers = <<[packets |-> <<Empty, Empty>>, capacity |-> 2],
                     [packets |-> <<Fluid(1)>>, capacity |-> 1]>>


\* ---------------------------------------------------------------------------
\* C31: the verdict of is_solvable() is the same after any sequence of
\* apply_move and apply_reverse_move calls with valid distinct indices as it
\* was before the sequence; no call faults.
C31_VerdictUnderPlay ==
    /\ pc # "fault"
    /\ pc = "done" /\ last.op = "is_solvable" => result = last.ret

\* a solved state is played out of the solved shortcut and the exact stage
\* gives the same verdict
C31_Witness ==
    /\ pc = "done"
    /\ last.op = "is_solvable"
    /\ last.arg = "solved"
    /\ stage = "exact"
    /\ result = "true"

\* an unsolvable state stays unsolvable
C31_WitnessUnsolvable ==
    /\ pc = "done"
    /\ last.op = "is_solvable"
    /\ last.ret = "false"
    /\ result = "false"


\* ---------------------------------------------------------------------------
\* C32: the verdict of is_solvable() is a function of the state: whichever
\* forced choice the loop takes first, and in whichever order the search
\* visits targets and ways, the same boolean is returned.

RECURSIVE LeastFirstVerdict(_, _, _)
\* the loop over the forced choices with the smallest forced target taken
\* first, then the search
LeastFirstVerdict(w, p, l) ==
    IF \E key \in DOMAIN w : w[key] = <<>> THEN FALSE
    ELSE IF ~\E key \in DOMAIN w : Len(w[key]) = 1
    THEN recursive_is_solvable(w, p, l)
    ELSE LET forced == {key \in DOMAIN w : Len(w[key]) = 1}
             liquid_size == CHOOSE key \in forced : \A other \in forced : key <= other
             way == w[liquid_size][1]
             n == Cardinality({i \in 1..Len(l) : l[i] = liquid_size})
         IN  IF \E size \in DOMAIN way : way[size] * n > p[size] THEN FALSE
             ELSE LeastFirstVerdict(
                      [key \in DOMAIN w \ {liquid_size} |->
                          SelectSeq(w[key], LAMBDA solution : RetainSolution(solution, way, n, p))],
                      [size \in DOMAIN p |-> p[size] - Get(way, size) * n],
                      SelectSeq(l, LAMBDA x : x # liquid_size))

\* the verdict of the run that takes the smallest forced target first
FixedOrderVerdict(cs) ==
    IF fast_is_maybe_solvable(cs).verdict # "none"
    THEN fast_is_maybe_solvable(cs).verdict
    ELSE Bool(LeastFirstVerdict(InitialWays(cs), ContainerSizeMap(cs), LiquidSizeVec(cs)))

Reversed(s) == [i \in 1..Len(s) |-> s[Len(s) + 1 - i]]

\* the orders a sequence can be put in
Reorderings(s) ==
    {[i \in 1..Len(s) |-> s[perm[i]]] :
        perm \in {f \in [1..Len(s) -> 1..Len(s)] :
                     \A a, b \in 1..Len(s) : f[a] = f[b] => a = b}}

\* the targets with a single way, among which the loop takes any
ForcedTargets == {key \in DOMAIN ways : Len(ways[key]) = 1}

\* C32: every run returns what the run with the smallest forced target first
\* returns, no run faults, and the search gives the same answer for every
\* order of the targets and for the ways taken from the last to the first
C32_Deterministic ==
    /\ pc # "fault"
    /\ pc = "done" => result = FixedOrderVerdict(containers)
    /\ pc = "search" =>
          \A order \in Reorderings(liquids) :
              /\ recursive_is_solvable(ways, pool, order)
                    = recursive_is_solvable(ways, pool, liquids)
              /\ recursive_is_solvable([key \in DOMAIN ways |-> Reversed(ways[key])],
                                       pool, order)
                    = recursive_is_solvable(ways, pool, liquids)

\* C32 witness: the loop has taken one forced choice and has two more to
\* choose from
C32_Witness ==
    /\ pc = "prune"
    /\ Len(liquids) < Len(LiquidSizeVec(containers))
    /\ Cardinality(ForcedTargets) >= 2
    /\ \A key \in DOMAIN ways : ways[key] # <<>>

\* C32 witness: the search starts with two different targets of several ways
C32_WitnessSearch ==
    /\ pc = "search"
    /\ Cardinality(Range(liquids)) >= 2
    /\ \A key \in Range(liquids) : Len(ways[key]) >= 2


\* ---------------------------------------------------------------------------
\* C33: the list of get_possible_moves holds each ordered pair (from, to) at
\* most once, also when several containers show the same top color.

\* the places of the list at which the pair (from, to) stands
PlacesOf(moves, from, to) ==
    {k \in 1..Len(moves) : moves[k].from_container = from /\ moves[k].to_container = to}

C33_ListedOnce ==
    \A from, to \in 1..Len(containers) :
        Cardinality(PlacesOf(get_possible_moves(containers), from, to)) <= 1

\* what the list does hold: a pair stands in it once for every container
\* that shows the top color of its source
C33_ListedPerTopColor ==
    \A from, to \in 1..Len(containers) :
        Cardinality(PlacesOf(get_possible_moves(containers), from, to)) \in
            {0, Cardinality({i \in 1..Len(containers) :
                                /\ ~is_empty(containers[i])
                                /\ get_top_fluid(containers[i]) = get_top_fluid(containers[from])})}

\* two containers show the same color and a pour from one of them is listed,
\* and apply_random_move has taken a move of the list
C33_Witness ==
    /\ last.op = "apply_random_move"
    /\ last.ret = TRUE
    /\ \E from, to \in 1..Len(last.before) :
          /\ Cardinality(PlacesOf(get_possible_moves(last.before), from, to)) = 2


\* ---------------------------------------------------------------------------
\* C34: no move that get_possible_reverse_moves(true) lists empties its
\* source; a step of shuffle() or apply_random_reverse_move leaves every
\* non-empty container non-empty and its bottom packet as it was, and the
\* number of non-empty containers does not go down.

NonEmptyContainers(cs) == {i \in 1..Len(cs) : ~is_empty(cs[i])}

\* a move chosen by shuffle() or by apply_random_reverse_move is applied
RandomReverseStep ==
    \/ pc = "shuffle" /\ iter' = iter + 1
    \/ last'.op = "apply_random_reverse_move" /\ stage' = "limit_size"

SourcesKept ==
    /\ \A m \in get_possible_reverse_moves(containers, TRUE) :
          m.amount < get_filled_amount(containers[m.from_container])
    /\ RandomReverseStep =>
          /\ Len(containers') = Len(containers)
          /\ \A i \in NonEmptyContainers(containers) :
                /\ ~is_empty(containers'[i])
                /\ containers'[i].packets[1] = containers[i].packets[1]
          /\ Cardinality(NonEmptyContainers(containers'))
                >= Cardinality(NonEmptyContainers(containers))

C34_SourcesKept == [][SourcesKept]_vars

\* C34 witness: apply_random_reverse_move has taken a move out of a container
\* that held one block only, and a packet of it stayed behind
C34_Witness ==
    /\ last.op = "apply_random_reverse_move"
    /\ stage = "limit_size"
    /\ last.ret = TRUE
    /\ containers # last.before
    /\ get_top_fluid_depth(last.before[last.from]) = get_filled_amount(last.before[last.from])
    /\ get_filled_amount(containers[last.from]) >= 1
    /\ is_empty(last.before[last.to])


\* ---------------------------------------------------------------------------
\* C35: apply_move and apply_reverse_move with valid distinct indices change
\* at most the two containers they name; the other containers, the number of
\* containers and their order stay, and a pour that is not legal (nothing to
\* move) leaves the whole state as it was.

\* the containers that differ between two states of the same length
ChangedContainers(before, after) == {i \in 1..Len(before) : after[i] # before[i]}

\* what the move that last names would move
LastMoveAmount ==
    IF last.op = "apply_move" THEN ForwardAmount(last.before, last.from, last.to)
    ELSE Min(ReverseAmount(last.before, last.from, last.to), last.arg)

C35_MoveFrame ==
    last.op \in {"apply_move", "apply_reverse_move"} =>
        /\ pc # "fault"
        /\ Len(containers) = Len(last.before)
        /\ ChangedContainers(last.before, containers) \subseteq {last.from, last.to}
        /\ LastMoveAmount = 0 => containers = last.before

\* C35 witness: a pour between two of three containers has changed both
C35_Witness ==
    /\ last.op = "apply_move"
    /\ Len(containers) = 3
    /\ ChangedContainers(last.before, containers) = {last.from, last.to}
    /\ ~is_empty(last.before[6 - last.from - last.to])

\* C35 witness: a pour onto another color was asked for and nothing moved
C35_WitnessIllegal ==
    /\ last.op = "apply_move"
    /\ Len(containers) = 3
    /\ ~is_empty(last.before[last.from])
    /\ ~is_full(last.before[last.to])
    /\ LastMoveAmount = 0
    /\ containers = last.before

\* C35 witness: a reverse pour of a positive amount that cannot take place
C35_WitnessReverseIllegal ==
    /\ last.op = "apply_reverse_move"
    /\ last.arg > 0
    /\ ~is_empty(last.before[last.from])
    /\ LastMoveAmount = 0
    /\ containers = last.before


\* ---------------------------------------------------------------------------
\* C36: with undo enabled, an Undo right after an action that changed the
\* puzzle state brings back the state the action found, and a Redo after
\* that Undo brings back the state the action left; Undo and Redo keep the
\* number of snapshots on the two stacks together, and change nothing when
\* their stack is empty or undo is disabled.

\* the actions that can change the puzzle state, Undo and Redo aside
ChangingActions ==
    {"PourInto", "ReversePour", "AddColor", "RemoveColor", "AddContainer",
     "RemoveContainer", "ExpandContainer", "ShrinkContainer", "Reset", "PasteState"}

\* the action handled last changed the puzzle state
LastChangedState == last.op \in ChangingActions /\ containers # last.before

\* the Undo handled last came right after an action that changed the state
UndoneChange ==
    /\ last.op = "Undo"
    /\ last.arg.op \in ChangingActions
    /\ last.arg.before # last.before

StacksTogether == Len(undo_stack) + Len(redo_stack)

\* Undo and Redo keep the stacks' combined size and do nothing without a
\* snapshot to take
UndoRedoSteps ==
    /\ last'.op \in {"Undo", "Redo"} => StacksTogether' = StacksTogether
    /\ last'.op = "Undo" /\ (~undo_enable \/ undo_stack = <<>>) =>
          UNCHANGED <<containers, starting_state, selected, undo_stack, redo_stack>>
    /\ last'.op = "Redo" /\ (~undo_enable \/ redo_stack = <<>>) =>
          UNCHANGED <<containers, starting_state, selected, undo_stack, redo_stack>>

\* C36 as stated, for every action that changed the state
RoundTrip ==
    /\ undo_enable /\ LastChangedState /\ last'.op = "Undo" => containers' = last.before
    /\ undo_enable /\ UndoneChange /\ last'.op = "Redo" => containers' = last.before
    /\ UndoRedoSteps

PastedWithoutSnapshot == last.op = "PasteState" /\ undo_stack = <<>>

\* the Undo handled last followed such a PasteState
UndonePasteWithoutSnapshot ==
    last.op = "Undo" /\ last.arg.op = "PasteState" /\ undo_stack = <<>>

\* C36 for every action that took a snapshot: all but PasteState on an empty
\* undo stack, after which Undo changes nothing
RoundTripOfSnapshots ==
    /\ undo_enable /\ LastChangedState /\ ~PastedWithoutSnapshot /\ last'.op = "Undo"
          => containers' = last.before
    /\ undo_enable /\ UndoneChange /\ ~UndonePasteWithoutSnapshot /\ last'.op = "Redo"
          => containers' = last.before
    /\ PastedWithoutSnapshot /\ last'.op = "Undo" => containers' = containers
    /\ UndoRedoSteps

C36_WitnessPaste ==
    /\ undo_enable
    /\ UndonePasteWithoutSnapshot
    /\ last.arg.before # last.before
    /\ containers = last.before


\* ---------------------------------------------------------------------------
\* C37: with undo enabled, an action other than Undo and Redo that changes
\* the puzzle state leaves the redo stack empty, and a Redo right after it
\* leaves the puzzle state as it is.
InvalidatesRedo ==
    /\ undo_enable /\ last'.op \in ChangingActions /\ containers' # containers
          => redo_stack' = <<>>
    /\ undo_enable /\ LastChangedState /\ last'.op = "Redo"
          => containers' = containers

C37_NewEditInvalidatesRedo == [][InvalidatesRedo]_vars

\* what the engine does: the redo stack is emptied by every state-changing
\* action that takes a snapshot, and kept by PasteState on an empty undo stack
InvalidatesRedoWithSnapshot ==
    /\ undo_enable /\ last'.op \in ChangingActions /\ containers' # containers
          => IF last'.op = "PasteState" /\ undo_stack = <<>>
             THEN UNCHANGED redo_stack
             ELSE redo_stack' = <<>>
    /\ undo_enable /\ LastChangedState /\ ~PastedWithoutSnapshot /\ last'.op = "Redo"
          => containers' = containers

C37_SnapshotInvalidatesRedo == [][InvalidatesRedoWithSnapshot]_vars

\* a paste changed the puzzle state and left a snapshot on the redo stack
C37_WitnessStaleRedo ==
    /\ undo_enable
    /\ LastChangedState
    /\ last.op = "PasteState"
    /\ redo_stack # <<>>


\* ---------------------------------------------------------------------------
\* C38: a PourInto whose forward pour would move nothing, and a ReversePour
\* in editor mode whose reverse pour would move nothing, leave the puzzle
\* state, the undo stack and the redo stack as they are; the selection
\* becomes the destination container and nothing else changes.
OnlySelectsDestination ==
    /\ selected' = Selection_Container(last'.to)
    /\ UNCHANGED <<containers, undo_stack, redo_stack, starting_state, editor_mode>>

RejectedPour ==
    /\ last'.op = "PourInto" /\ ForwardAmount(containers, last'.from, last'.to) = 0
          => OnlySelectsDestination
    /\ last'.op = "ReversePour" /\ editor_mode
                                /\ ReverseAmount(containers, last'.from, last'.to) = 0
          => OnlySelectsDestination

C38_RejectedPourLeavesNoTrace == [][RejectedPour]_vars

\* C38 witness: a pour was rejected while both stacks held a snapshot
C38_Witness ==
    /\ last.op = "PourInto"
    /\ ForwardAmount(last.before, last.from, last.to) = 0
    /\ containers = last.before
    /\ selected = Selection_Container(last.to)
    /\ undo_enable /\ undo_stack # <<>> /\ redo_stack # <<>>

\* C38 witness: a reverse pour was rejected in editor mode while the redo
\* stack held a snapshot
C38_WitnessReverse ==
    /\ last.op = "ReversePour"
    /\ editor_mode
    /\ ReverseAmount(last.before, last.from, last.to) = 0
    /\ containers = last.before
    /\ selected = Selection_Container(last.to)
    /\ undo_enable /\ redo_stack # <<>>


\* ---------------------------------------------------------------------------
\* C39: while editor mode is off, PasteState, AddColor, RemoveColor,
\* AddContainer, RemoveContainer, ExpandContainer, ShrinkContainer and
\* ReversePour change nothing: puzzle state, starting state, selection, undo
\* stack and redo stack stay as they are. In play mode the capacities, the
\* number of containers and the number of packets of each color change only
\* through Undo, Redo or Reset.
EditorActions ==
    {"PasteState", "AddColor", "RemoveColor", "AddContainer", "RemoveContainer",
     "ExpandContainer", "ShrinkContainer", "ReversePour"}

\* the two states hold as many packets of every color
SameColorCounts(a, b) ==
    \A id \in ColorsPresent(a) \cup ColorsPresent(b) : CountOf(a, id) = CountOf(b, id)

EditorGate ==
    /\ ~editor_mode /\ last'.op \in EditorActions
          => UNCHANGED <<containers, starting_state, selected, undo_stack, redo_stack>>
    /\ ~editor_mode /\ last'.op \notin {"Undo", "Redo", "Reset"}
          => /\ Capacities(containers') = Capacities(containers)
             /\ SameColorCounts(containers', containers)

C39_EditorGating == [][EditorGate]_vars

\* C39 witness: with editor mode off an AddColor was asked for a container
\* with room, while a container was selected and the undo stack held a snapshot
C39_Witness ==
    /\ ~editor_mode
    /\ last.op = "AddColor"
    /\ Filled(containers[last.to]) < Len(containers[last.to].packets)
    /\ containers = last.before
    /\ selected # Selection_None
    /\ undo_enable /\ undo_stack # <<>>

\* C39 witness: with editor mode off a pour moved packets and kept the
\* capacities and the packets of each color
C39_WitnessPour ==
    /\ ~editor_mode
    /\ last.op = "PourInto"
    /\ containers # last.before
    /\ Capacities(containers) = Capacities(last.before)
    /\ SameColorCounts(containers, last.before)

\* C39 witness: with editor mode off a Reset changed the number of packets
C39_WitnessReset ==
    /\ ~editor_mode
    /\ last.op = "Reset"
    /\ Len(containers) = Len(last.before)
    /\ ~SameColorCounts(containers, last.before)

=============================================================================
